---- MODULE Spec2Model ----
(***************************************************************************)
(* Model of the garage door controller's door state machine                *)
(* (src/main/garage_state_machine.c, src/main/include/                     *)
(* garage_state_machine.h).                                                *)
(*                                                                         *)
(* A machine is a record of the four fields of garage_state_machine_t.     *)
(* A pointer argument is a sequence: <<>> is NULL, <<m>> points to the     *)
(* machine m.  Every function that mutates its argument is an operator     *)
(* that yields the machine after the call together with the value the      *)
(* function returns.                                                       *)
(***************************************************************************)
EXTENDS Integers, Sequences, FiniteSets, TLC

(* ------------------------------------------------------------------ *)
(* Bounds of the exploration                                           *)
(* ------------------------------------------------------------------ *)

\* Number of calls made on one machine after its initialisation.
MaxCalls == 5

\* Width of the C type int in the model.  The target's int has 32 bits; the
\* model keeps the two's complement arithmetic at a width the checker's own
\* integers can hold, wide enough for every constant of the program.
IntBits == 16

(* ------------------------------------------------------------------ *)
(* Types and constants of the program                                  *)
(* ------------------------------------------------------------------ *)

\* garage_state_t
GARAGE_STATE_CLOSED == 0
GARAGE_STATE_OPEN == 1
GARAGE_STATE_CLOSING == 2
GARAGE_STATE_OPENING == 3
GARAGE_STATE_UNKNOWN == 4

garage_state_t ==
    { GARAGE_STATE_CLOSED, GARAGE_STATE_OPEN, GARAGE_STATE_CLOSING,
      GARAGE_STATE_OPENING, GARAGE_STATE_UNKNOWN }

\* garage_event_t
GARAGE_EVENT_NONE == 0
GARAGE_EVENT_SENSOR_CLOSED == 1
GARAGE_EVENT_SENSOR_OPEN == 2
GARAGE_EVENT_COMMAND_OPEN == 3
GARAGE_EVENT_COMMAND_CLOSE == 4
GARAGE_EVENT_TIMER_EXPIRED == 5

garage_event_t ==
    { GARAGE_EVENT_NONE, GARAGE_EVENT_SENSOR_CLOSED, GARAGE_EVENT_SENSOR_OPEN,
      GARAGE_EVENT_COMMAND_OPEN, GARAGE_EVENT_COMMAND_CLOSE,
      GARAGE_EVENT_TIMER_EXPIRED }

DEFAULT_TIMEOUT_MS == 15000

\* The C type int: IntBits bits, two's complement.
INT_MAX == 2^(IntBits - 1) - 1

INT_MIN == -(2^(IntBits - 1))

\* The value an int register holds after an addition whose exact result is x.
WrapInt(x) == ((x - INT_MIN) % (2^IntBits)) + INT_MIN

\* Signed overflow: the exact result is not an int (undefined behaviour in C).
Overflows(x) == x < INT_MIN \/ x > INT_MAX

\* The null pointer, and the pointer to a machine.
NULL == << >>

PtrTo(m) == << m >>

Deref(p) == p[1]

(* ------------------------------------------------------------------ *)
(* Inputs                                                              *)
(* ------------------------------------------------------------------ *)

\* garage_sm_config_t.timeout_ms values handed to garage_sm_init_with_config.
ConfigTimeouts == { -1, 0, 1, 3 }

\* The config argument: NULL or a pointer to a garage_sm_config_t.
Configs == { NULL } \cup { PtrTo([timeout_ms |-> t]) : t \in ConfigTimeouts }

\* delta_ms values handed to garage_sm_update_timer.
Deltas == { -1, 0, 1, 2, 7499, 7500, 14999, 15000, INT_MAX }

(* ------------------------------------------------------------------ *)
(* garage_state_machine.c                                              *)
(* ------------------------------------------------------------------ *)

garage_sm_init(sm, initial_state) ==
    IF sm # NULL
    THEN PtrTo([ current_state    |-> initial_state,
                 timeout_ms       |-> DEFAULT_TIMEOUT_MS,
                 timer_elapsed_ms |-> 0,
                 timer_active     |-> FALSE ])
    ELSE sm

\* Variant of garage_sm_init_with_config that accepts a timeout of zero.
garage_sm_init_with_config_AcceptsZero(sm, initial_state, config) ==
    IF sm # NULL
    THEN PtrTo([ current_state    |-> initial_state,
                 timeout_ms       |-> IF config # NULL /\ Deref(config).timeout_ms >= 0
                                      THEN Deref(config).timeout_ms
                                      ELSE DEFAULT_TIMEOUT_MS,
                 timer_elapsed_ms |-> 0,
                 timer_active     |-> FALSE ])
    ELSE sm

garage_sm_init_with_config(sm, initial_state, config) ==
    IF sm # NULL
    THEN PtrTo([ current_state    |-> initial_state,
                 timeout_ms       |-> IF config # NULL /\ Deref(config).timeout_ms > 0
                                      THEN Deref(config).timeout_ms
                                      ELSE DEFAULT_TIMEOUT_MS,
                 timer_elapsed_ms |-> 0,
                 timer_active     |-> FALSE ])
    ELSE sm

garage_sm_get_state(sm) ==
    IF sm = NULL THEN GARAGE_STATE_UNKNOWN ELSE Deref(sm).current_state

garage_sm_is_timer_active(sm) ==
    IF sm = NULL THEN FALSE ELSE Deref(sm).timer_active

garage_sm_get_timer_elapsed(sm) ==
    IF sm = NULL THEN 0 ELSE Deref(sm).timer_elapsed_ms

garage_state_to_string(state) ==
    CASE state = GARAGE_STATE_CLOSED  -> "CLOSED"
      [] state = GARAGE_STATE_OPEN    -> "OPEN"
      [] state = GARAGE_STATE_CLOSING -> "CLOSING"
      [] state = GARAGE_STATE_OPENING -> "OPENING"
      [] OTHER                        -> "UNKNOWN"

\* Variant of make_result that requests a publish on every call.
make_result_AlwaysPublish(current, new_state, button_press, start_timer) ==
    [ new_state     |-> new_state,
      state_changed |-> (current # new_state),
      actions       |-> [ publish_state        |-> TRUE,
                          trigger_button_press |-> button_press,
                          start_timeout_timer  |-> start_timer ] ]

make_result(current, new_state, button_press, start_timer) ==
    [ new_state     |-> new_state,
      state_changed |-> (current # new_state),
      actions       |-> [ publish_state        |-> (current # new_state),
                          trigger_button_press |-> button_press,
                          start_timeout_timer  |-> start_timer ] ]

\* Variant of handle_closed_state that accepts a close command.
handle_closed_state_AcceptsClose(current, event) ==
    CASE event = GARAGE_EVENT_SENSOR_OPEN ->
            make_result(current, GARAGE_STATE_OPENING, FALSE, TRUE)
      [] event = GARAGE_EVENT_COMMAND_OPEN ->
            make_result(current, GARAGE_STATE_OPENING, TRUE, TRUE)
      [] event = GARAGE_EVENT_COMMAND_CLOSE ->
            make_result(current, GARAGE_STATE_CLOSING, TRUE, TRUE)
      [] OTHER ->
            make_result(current, current, FALSE, FALSE)

handle_closed_state(current, event) ==
    CASE event = GARAGE_EVENT_SENSOR_OPEN ->
            make_result(current, GARAGE_STATE_OPENING, FALSE, TRUE)
      [] event = GARAGE_EVENT_COMMAND_OPEN ->
            make_result(current, GARAGE_STATE_OPENING, TRUE, TRUE)
      [] OTHER ->
            make_result(current, current, FALSE, FALSE)

\* Variant of handle_open_state in which the closed sensor presses the button.
handle_open_state_SensorPresses(current, event) ==
    CASE event = GARAGE_EVENT_SENSOR_CLOSED ->
            make_result(current, GARAGE_STATE_CLOSED, TRUE, FALSE)
      [] event = GARAGE_EVENT_COMMAND_CLOSE ->
            make_result(current, GARAGE_STATE_CLOSING, TRUE, TRUE)
      [] OTHER ->
            make_result(current, current, FALSE, FALSE)

handle_open_state(current, event) ==
    CASE event = GARAGE_EVENT_SENSOR_CLOSED ->
            make_result(current, GARAGE_STATE_CLOSED, FALSE, FALSE)
      [] event = GARAGE_EVENT_COMMAND_CLOSE ->
            make_result(current, GARAGE_STATE_CLOSING, TRUE, TRUE)
      [] OTHER ->
            make_result(current, current, FALSE, FALSE)

\* Variant of handle_closing_state that ignores the closed sensor.
handle_closing_state_IgnoresSensorClosed(current, event) ==
    CASE event = GARAGE_EVENT_TIMER_EXPIRED ->
            make_result(current, GARAGE_STATE_UNKNOWN, FALSE, FALSE)
      [] OTHER ->
            make_result(current, current, FALSE, FALSE)

handle_closing_state(current, event) ==
    CASE event = GARAGE_EVENT_SENSOR_CLOSED ->
            make_result(current, GARAGE_STATE_CLOSED, FALSE, FALSE)
      [] event = GARAGE_EVENT_TIMER_EXPIRED ->
            make_result(current, GARAGE_STATE_UNKNOWN, FALSE, FALSE)
      [] OTHER ->
            make_result(current, current, FALSE, FALSE)

\* Variant of handle_opening_state without the reversal case.
handle_opening_state_NoReversal(current, event) ==
    CASE event = GARAGE_EVENT_TIMER_EXPIRED ->
            make_result(current, GARAGE_STATE_OPEN, FALSE, FALSE)
      [] OTHER ->
            make_result(current, current, FALSE, FALSE)

handle_opening_state(current, event) ==
    CASE event = GARAGE_EVENT_SENSOR_CLOSED ->
            make_result(current, GARAGE_STATE_CLOSED, FALSE, FALSE)
      [] event = GARAGE_EVENT_TIMER_EXPIRED ->
            make_result(current, GARAGE_STATE_OPEN, FALSE, FALSE)
      [] OTHER ->
            make_result(current, current, FALSE, FALSE)

\* Variant of handle_unknown_state whose close command starts no timer.
handle_unknown_state_NoTimer(current, event) ==
    CASE event = GARAGE_EVENT_SENSOR_CLOSED ->
            make_result(current, GARAGE_STATE_CLOSED, FALSE, FALSE)
      [] event = GARAGE_EVENT_SENSOR_OPEN ->
            make_result(current, GARAGE_STATE_OPEN, FALSE, FALSE)
      [] event = GARAGE_EVENT_COMMAND_OPEN ->
            make_result(current, GARAGE_STATE_OPENING, TRUE, TRUE)
      [] event = GARAGE_EVENT_COMMAND_CLOSE ->
            make_result(current, GARAGE_STATE_CLOSING, TRUE, FALSE)
      [] OTHER ->
            make_result(current, current, FALSE, FALSE)

handle_unknown_state(current, event) ==
    CASE event = GARAGE_EVENT_SENSOR_CLOSED ->
            make_result(current, GARAGE_STATE_CLOSED, FALSE, FALSE)
      [] event = GARAGE_EVENT_SENSOR_OPEN ->
            make_result(current, GARAGE_STATE_OPEN, FALSE, FALSE)
      [] event = GARAGE_EVENT_COMMAND_OPEN ->
            make_result(current, GARAGE_STATE_OPENING, TRUE, TRUE)
      [] event = GARAGE_EVENT_COMMAND_CLOSE ->
            make_result(current, GARAGE_STATE_CLOSING, TRUE, TRUE)
      [] OTHER ->
            make_result(current, current, FALSE, FALSE)

\* Variant of error_result that reports the Closed state.
error_result_Closed ==
    [ new_state     |-> GARAGE_STATE_CLOSED,
      state_changed |-> FALSE,
      actions       |-> [ publish_state        |-> FALSE,
                          trigger_button_press |-> FALSE,
                          start_timeout_timer  |-> FALSE ] ]

\* error_result of garage_sm_process_event (lines 211-215).
error_result ==
    [ new_state     |-> GARAGE_STATE_UNKNOWN,
      state_changed |-> FALSE,
      actions       |-> [ publish_state        |-> FALSE,
                          trigger_button_press |-> FALSE,
                          start_timeout_timer  |-> FALSE ] ]

\* no_change of garage_sm_update_timer (lines 265-269).
no_change(sm) ==
    [ new_state     |-> IF sm # NULL THEN Deref(sm).current_state
                                     ELSE GARAGE_STATE_UNKNOWN,
      state_changed |-> FALSE,
      actions       |-> [ publish_state        |-> FALSE,
                          trigger_button_press |-> FALSE,
                          start_timeout_timer  |-> FALSE ] ]

\* Variant of dispatch_event that treats Unknown like Opening.
dispatch_event_UnknownAsOpening(current, event) ==
    CASE current = GARAGE_STATE_CLOSED  -> handle_closed_state(current, event)
      [] current = GARAGE_STATE_OPEN    -> handle_open_state(current, event)
      [] current = GARAGE_STATE_CLOSING -> handle_closing_state(current, event)
      [] OTHER                          -> handle_opening_state(current, event)

\* The switch on the current state (lines 222-243).
dispatch_event(current, event) ==
    CASE current = GARAGE_STATE_CLOSED  -> handle_closed_state(current, event)
      [] current = GARAGE_STATE_OPEN    -> handle_open_state(current, event)
      [] current = GARAGE_STATE_CLOSING -> handle_closing_state(current, event)
      [] current = GARAGE_STATE_OPENING -> handle_opening_state(current, event)
      [] OTHER                          -> handle_unknown_state(current, event)

\* Variant of start_timer_step that does not reset the elapsed time.
start_timer_step_NoReset(m, result) ==
    IF result.actions.start_timeout_timer
    THEN [m EXCEPT !.timer_active = TRUE]
    ELSE m

\* "Manage timer based on actions" (lines 248-252).
start_timer_step(m, result) ==
    IF result.actions.start_timeout_timer
    THEN [m EXCEPT !.timer_active = TRUE, !.timer_elapsed_ms = 0]
    ELSE m

\* Variant of stop_timer_step that stops the timer on Closed only.
stop_timer_step_ClosedOnly(m, result) ==
    IF result.new_state = GARAGE_STATE_CLOSED
    THEN [m EXCEPT !.timer_active = FALSE, !.timer_elapsed_ms = 0]
    ELSE m

\* "Stop timer if we reached a stable state" (lines 254-258).
stop_timer_step(m, result) ==
    IF result.new_state = GARAGE_STATE_CLOSED \/ result.new_state = GARAGE_STATE_OPEN
    THEN [m EXCEPT !.timer_active = FALSE, !.timer_elapsed_ms = 0]
    ELSE m

\* Variant of garage_sm_process_event that ignores commands while the timer
\* runs.
garage_sm_process_event_TimerGated(sm, event) ==
    IF sm = NULL
    THEN [ sm |-> sm, result |-> error_result ]
    ELSE LET current == Deref(sm).current_state
             result  == IF /\ Deref(sm).timer_active
                           /\ event \in { GARAGE_EVENT_COMMAND_OPEN,
                                          GARAGE_EVENT_COMMAND_CLOSE }
                        THEN make_result(current, current, FALSE, FALSE)
                        ELSE dispatch_event(current, event)
             m1      == [Deref(sm) EXCEPT !.current_state = result.new_state]
             m2      == start_timer_step(m1, result)
             m3      == stop_timer_step(m2, result)
         IN  [ sm |-> PtrTo(m3), result |-> result ]

\* Variant of garage_sm_process_event that stops the timer whenever the
\* state does not change.
garage_sm_process_event_StopsOnNoChange(sm, event) ==
    IF sm = NULL
    THEN [ sm |-> sm, result |-> error_result ]
    ELSE LET current == Deref(sm).current_state
             result  == dispatch_event(current, event)
             m1      == [Deref(sm) EXCEPT !.current_state = result.new_state]
             m2      == start_timer_step(m1, result)
             m3      == stop_timer_step(m2, result)
             m4      == IF result.state_changed THEN m3
                        ELSE [m3 EXCEPT !.timer_active = FALSE,
                                        !.timer_elapsed_ms = 0]
         IN  [ sm |-> PtrTo(m4), result |-> result ]

\* Yields [sm |-> the argument after the call, result |-> the returned value].
garage_sm_process_event(sm, event) ==
    IF sm = NULL
    THEN [ sm |-> sm, result |-> error_result ]
    ELSE LET current == Deref(sm).current_state
             result  == dispatch_event(current, event)
             m1      == [Deref(sm) EXCEPT !.current_state = result.new_state]
             m2      == start_timer_step(m1, result)
             m3      == stop_timer_step(m2, result)
         IN  [ sm |-> PtrTo(m3), result |-> result ]

\* Variant of after_tick that dispatches TimerExpired without clearing the
\* timer first.
after_tick_KeepsTimer(sm, v, expired) ==
    IF expired
    THEN garage_sm_process_event(
             PtrTo([Deref(sm) EXCEPT !.timer_elapsed_ms = v]),
             GARAGE_EVENT_TIMER_EXPIRED)
    ELSE [ sm     |-> PtrTo([Deref(sm) EXCEPT !.timer_elapsed_ms = v]),
           result |-> no_change(sm) ]

\* The machine after "timer_elapsed_ms += delta_ms" stored value v, followed
\* by the timeout check decided by "expired" (lines 277-285).
after_tick(sm, v, expired) ==
    IF expired
    THEN garage_sm_process_event(
             PtrTo([Deref(sm) EXCEPT !.timer_active = FALSE, !.timer_elapsed_ms = 0]),
             GARAGE_EVENT_TIMER_EXPIRED)
    ELSE [ sm     |-> PtrTo([Deref(sm) EXCEPT !.timer_elapsed_ms = v]),
           result |-> no_change(sm) ]

\* Variant of garage_sm_update_timer that advances an inactive timer too.
garage_sm_update_timer_Unguarded(sm, delta_ms) ==
    IF sm = NULL
    THEN { [ sm |-> sm, result |-> no_change(sm) ] }
    ELSE LET exact == Deref(sm).timer_elapsed_ms + delta_ms
             wrapped == WrapInt(exact)
         IN  IF Overflows(exact)
             THEN { after_tick(sm, wrapped, wrapped >= Deref(sm).timeout_ms),
                    after_tick(sm, wrapped, exact >= Deref(sm).timeout_ms) }
             ELSE { after_tick(sm, exact, exact >= Deref(sm).timeout_ms) }

\* Yields the set of outcomes of the call, each as for garage_sm_process_event.
\* The set has one element unless the addition overflows int: then it holds
\* the outcome of a build that compares the wrapped sum and the outcome of a
\* build that compares the exact sum (and stores the wrapped one).
garage_sm_update_timer(sm, delta_ms) ==
    IF sm = NULL \/ ~Deref(sm).timer_active
    THEN { [ sm |-> sm, result |-> no_change(sm) ] }
    ELSE LET exact == Deref(sm).timer_elapsed_ms + delta_ms
             wrapped == WrapInt(exact)
         IN  IF Overflows(exact)
             THEN { after_tick(sm, wrapped, wrapped >= Deref(sm).timeout_ms),
                    after_tick(sm, wrapped, exact >= Deref(sm).timeout_ms) }
             ELSE { after_tick(sm, exact, exact >= Deref(sm).timeout_ms) }

(* ------------------------------------------------------------------ *)
(* wifi/wifi_retry_manager.c                                           *)
(* ------------------------------------------------------------------ *)

\* wifi_retry_action_t
WIFI_RETRY_ACTION_NONE == 0
WIFI_RETRY_ACTION_CONNECT == 1
WIFI_RETRY_ACTION_STOP_TIMER == 2
WIFI_RETRY_ACTION_FAIL == 3

\* max_retries values handed to wifi_retry_init.
WifiMaxRetries == { -1, 0, 1, 2, 3 }

\* retry_interval_ms values handed to wifi_retry_init.
WifiIntervals == { 0, 5000 }

\* "wifi_retry_result_t result = {0}"
wifi_zero_result ==
    [ action                       |-> WIFI_RETRY_ACTION_NONE,
      should_callback_connected    |-> FALSE,
      should_callback_disconnected |-> FALSE,
      should_callback_failed       |-> FALSE,
      callback_retry_count         |-> 0 ]

\* Yields the argument after the call.
wifi_retry_init(state, max_retries, retry_interval_ms) ==
    IF state = NULL
    THEN state
    ELSE PtrTo([ retry_count             |-> 0,
                 max_retries             |-> max_retries,
                 retry_interval_ms       |-> retry_interval_ms,
                 is_connected            |-> FALSE,
                 timer_should_be_running |-> FALSE ])

\* Variant of wifi_disconnect_retry that reports the count before the
\* increment.
wifi_disconnect_retry_StaleCount(s1) ==
    LET s2 == [s1 EXCEPT !.retry_count = s1.retry_count + 1]
    IN  [ state  |-> PtrTo(s2),
          result |-> [ wifi_zero_result EXCEPT
                         !.action = WIFI_RETRY_ACTION_CONNECT,
                         !.should_callback_disconnected = TRUE,
                         !.callback_retry_count = s1.retry_count ] ]

\* Variant of wifi_disconnect_retry that clears the long-interval timer flag.
wifi_disconnect_retry_ClearsFlag(s1) ==
    LET s2 == [s1 EXCEPT !.retry_count = s1.retry_count + 1,
                         !.timer_should_be_running = FALSE]
    IN  [ state  |-> PtrTo(s2),
          result |-> [ wifi_zero_result EXCEPT
                         !.action = WIFI_RETRY_ACTION_CONNECT,
                         !.should_callback_disconnected = TRUE,
                         !.callback_retry_count = s2.retry_count ] ]

\* The branch of wifi_retry_on_disconnect with retries left (lines 31-35).
wifi_disconnect_retry(s1) ==
    LET s2 == [s1 EXCEPT !.retry_count = s1.retry_count + 1]
    IN  [ state  |-> PtrTo(s2),
          result |-> [ wifi_zero_result EXCEPT
                         !.action = WIFI_RETRY_ACTION_CONNECT,
                         !.should_callback_disconnected = TRUE,
                         !.callback_retry_count = s2.retry_count ] ]

\* Variant of wifi_disconnect_fail that asks for the failed callback.
wifi_disconnect_fail_CallbackFailed(s1) ==
    [ state  |-> PtrTo([s1 EXCEPT !.timer_should_be_running = TRUE]),
      result |-> [ wifi_zero_result EXCEPT
                     !.action = WIFI_RETRY_ACTION_FAIL,
                     !.should_callback_disconnected = TRUE,
                     !.should_callback_failed = TRUE,
                     !.callback_retry_count = s1.retry_count ] ]

\* Variant of wifi_disconnect_fail that goes on counting.
wifi_disconnect_fail_Counts(s1) ==
    LET s2 == [s1 EXCEPT !.retry_count = s1.retry_count + 1,
                         !.timer_should_be_running = TRUE]
    IN  [ state  |-> PtrTo(s2),
          result |-> [ wifi_zero_result EXCEPT
                         !.action = WIFI_RETRY_ACTION_FAIL,
                         !.should_callback_disconnected = TRUE,
                         !.callback_retry_count = s2.retry_count ] ]

\* The branch of wifi_retry_on_disconnect with the budget used up (lines 37-41).
wifi_disconnect_fail(s1) ==
    [ state  |-> PtrTo([s1 EXCEPT !.timer_should_be_running = TRUE]),
      result |-> [ wifi_zero_result EXCEPT
                     !.action = WIFI_RETRY_ACTION_FAIL,
                     !.should_callback_disconnected = TRUE,
                     !.callback_retry_count = s1.retry_count ] ]

\* Variant of wifi_retry_on_disconnect that allows one retry too many.
wifi_retry_on_disconnect_OffByOne(state) ==
    IF state = NULL
    THEN [ state |-> state, result |-> wifi_zero_result ]
    ELSE LET s1 == [Deref(state) EXCEPT !.is_connected = FALSE]
         IN  IF s1.retry_count <= s1.max_retries
             THEN wifi_disconnect_retry(s1)
             ELSE wifi_disconnect_fail(s1)

\* Yields [state |-> the argument after the call, result |-> the returned value].
wifi_retry_on_disconnect(state) ==
    IF state = NULL
    THEN [ state |-> state, result |-> wifi_zero_result ]
    ELSE LET s1 == [Deref(state) EXCEPT !.is_connected = FALSE]
         IN  IF s1.retry_count < s1.max_retries
             THEN wifi_disconnect_retry(s1)
             ELSE wifi_disconnect_fail(s1)

\* Variant of wifi_retry_on_connected that stops the timer whether or not
\* it was marked running.
wifi_retry_on_connected_AlwaysStops(state) ==
    IF state = NULL
    THEN [ state |-> state, result |-> wifi_zero_result ]
    ELSE LET s1 == [Deref(state) EXCEPT !.is_connected = TRUE, !.retry_count = 0]
         IN  [ state  |-> PtrTo([s1 EXCEPT !.timer_should_be_running = FALSE]),
               result |-> [ wifi_zero_result EXCEPT
                              !.action = WIFI_RETRY_ACTION_STOP_TIMER,
                              !.should_callback_connected = TRUE ] ]

\* Variant of wifi_retry_on_connected that keeps the retry count.
wifi_retry_on_connected_KeepsCount(state) ==
    IF state = NULL
    THEN [ state |-> state, result |-> wifi_zero_result ]
    ELSE LET s1 == [Deref(state) EXCEPT !.is_connected = TRUE]
         IN  IF s1.timer_should_be_running
             THEN [ state  |-> PtrTo([s1 EXCEPT !.timer_should_be_running = FALSE]),
                    result |-> [ wifi_zero_result EXCEPT
                                   !.action = WIFI_RETRY_ACTION_STOP_TIMER,
                                   !.should_callback_connected = TRUE ] ]
             ELSE [ state  |-> PtrTo(s1),
                    result |-> [ wifi_zero_result EXCEPT
                                   !.action = WIFI_RETRY_ACTION_NONE,
                                   !.should_callback_connected = TRUE ] ]

\* Variant of wifi_retry_on_connected that leaves the timer flag set.
wifi_retry_on_connected_KeepsFlag(state) ==
    IF state = NULL
    THEN [ state |-> state, result |-> wifi_zero_result ]
    ELSE LET s1 == [Deref(state) EXCEPT !.is_connected = TRUE, !.retry_count = 0]
         IN  IF s1.timer_should_be_running
             THEN [ state  |-> PtrTo(s1),
                    result |-> [ wifi_zero_result EXCEPT
                                   !.action = WIFI_RETRY_ACTION_STOP_TIMER,
                                   !.should_callback_connected = TRUE ] ]
             ELSE [ state  |-> PtrTo(s1),
                    result |-> [ wifi_zero_result EXCEPT
                                   !.action = WIFI_RETRY_ACTION_NONE,
                                   !.should_callback_connected = TRUE ] ]

wifi_retry_on_connected(state) ==
    IF state = NULL
    THEN [ state |-> state, result |-> wifi_zero_result ]
    ELSE LET s1 == [Deref(state) EXCEPT !.is_connected = TRUE, !.retry_count = 0]
         IN  IF s1.timer_should_be_running
             THEN [ state  |-> PtrTo([s1 EXCEPT !.timer_should_be_running = FALSE]),
                    result |-> [ wifi_zero_result EXCEPT
                                   !.action = WIFI_RETRY_ACTION_STOP_TIMER,
                                   !.should_callback_connected = TRUE ] ]
             ELSE [ state  |-> PtrTo(s1),
                    result |-> [ wifi_zero_result EXCEPT
                                   !.action = WIFI_RETRY_ACTION_NONE,
                                   !.should_callback_connected = TRUE ] ]

\* Variant of wifi_retry_on_timer_expired that keeps the retry count.
wifi_retry_on_timer_expired_KeepsCount(state) ==
    IF state = NULL
    THEN [ state |-> state, result |-> wifi_zero_result ]
    ELSE [ state  |-> state,
           result |-> [ wifi_zero_result EXCEPT
                          !.action = WIFI_RETRY_ACTION_CONNECT ] ]

\* Variant of wifi_retry_on_timer_expired that also clears the timer flag.
wifi_retry_on_timer_expired_ClearsFlag(state) ==
    IF state = NULL
    THEN [ state |-> state, result |-> wifi_zero_result ]
    ELSE [ state  |-> PtrTo([Deref(state) EXCEPT !.retry_count = 0,
                                                 !.timer_should_be_running = FALSE]),
           result |-> [ wifi_zero_result EXCEPT
                          !.action = WIFI_RETRY_ACTION_CONNECT ] ]

wifi_retry_on_timer_expired(state) ==
    IF state = NULL
    THEN [ state |-> state, result |-> wifi_zero_result ]
    ELSE [ state  |-> PtrTo([Deref(state) EXCEPT !.retry_count = 0]),
           result |-> [ wifi_zero_result EXCEPT
                          !.action = WIFI_RETRY_ACTION_CONNECT ] ]

\* Variant of wifi_retry_get_count that reports -1 for NULL.
wifi_retry_get_count_NullMinusOne(state) ==
    IF state # NULL THEN Deref(state).retry_count ELSE -1

wifi_retry_get_count(state) ==
    IF state # NULL THEN Deref(state).retry_count ELSE 0

wifi_retry_is_connected(state) ==
    IF state # NULL THEN Deref(state).is_connected ELSE FALSE

wifi_retry_should_timer_run(state) ==
    IF state # NULL THEN Deref(state).timer_should_be_running ELSE FALSE

(* ------------------------------------------------------------------ *)
(* mqtt/mqtt_retry_manager.c                                           *)
(* ------------------------------------------------------------------ *)

\* mqtt_retry_action_t
MQTT_RETRY_ACTION_NONE == 0
MQTT_RETRY_ACTION_RECONNECT == 1

\* "mqtt_retry_result_t result = {0}"
mqtt_zero_result ==
    [ action                       |-> MQTT_RETRY_ACTION_NONE,
      should_callback_connected    |-> FALSE,
      should_callback_disconnected |-> FALSE ]

\* Yields the argument after the call.
mqtt_retry_init(state, auto_reconnect) ==
    IF state = NULL
    THEN state
    ELSE PtrTo([ should_reconnect |-> auto_reconnect,
                 is_connected     |-> FALSE,
                 disconnect_count |-> 0 ])

\* "state->disconnect_count++" on an int (line 27).
mqtt_count_step(s1) ==
    [s1 EXCEPT !.disconnect_count = WrapInt(s1.disconnect_count + 1)]

\* Variant of mqtt_disconnect_action that always reconnects.
mqtt_disconnect_action_Always(s2) ==
    MQTT_RETRY_ACTION_RECONNECT

\* The action mqtt_retry_on_disconnect chooses (lines 31-35).
mqtt_disconnect_action(s2) ==
    IF s2.should_reconnect
    THEN MQTT_RETRY_ACTION_RECONNECT
    ELSE MQTT_RETRY_ACTION_NONE

\* Yields [state |-> the argument after the call, result |-> the returned value].
mqtt_retry_on_disconnect(state) ==
    IF state = NULL
    THEN [ state |-> state, result |-> mqtt_zero_result ]
    ELSE LET s1 == [Deref(state) EXCEPT !.is_connected = FALSE]
             s2 == mqtt_count_step(s1)
         IN  [ state  |-> PtrTo(s2),
               result |-> [ mqtt_zero_result EXCEPT
                              !.should_callback_disconnected = TRUE,
                              !.action = mqtt_disconnect_action(s2) ] ]

\* Variant of mqtt_retry_on_connected that resets the disconnect count.
mqtt_retry_on_connected_ResetsCount(state) ==
    IF state = NULL
    THEN [ state |-> state, result |-> mqtt_zero_result ]
    ELSE [ state  |-> PtrTo([Deref(state) EXCEPT !.is_connected = TRUE,
                                                 !.disconnect_count = 0]),
           result |-> [ mqtt_zero_result EXCEPT
                          !.action = MQTT_RETRY_ACTION_NONE,
                          !.should_callback_connected = TRUE ] ]

\* Variant of mqtt_retry_on_connected that asks for a reconnect.
mqtt_retry_on_connected_Reconnects(state) ==
    IF state = NULL
    THEN [ state |-> state, result |-> mqtt_zero_result ]
    ELSE [ state  |-> PtrTo([Deref(state) EXCEPT !.is_connected = TRUE]),
           result |-> [ mqtt_zero_result EXCEPT
                          !.action = MQTT_RETRY_ACTION_RECONNECT,
                          !.should_callback_connected = TRUE ] ]

mqtt_retry_on_connected(state) ==
    IF state = NULL
    THEN [ state |-> state, result |-> mqtt_zero_result ]
    ELSE [ state  |-> PtrTo([Deref(state) EXCEPT !.is_connected = TRUE]),
           result |-> [ mqtt_zero_result EXCEPT
                          !.action = MQTT_RETRY_ACTION_NONE,
                          !.should_callback_connected = TRUE ] ]

mqtt_retry_get_disconnect_count(state) ==
    IF state # NULL THEN Deref(state).disconnect_count ELSE 0

mqtt_retry_is_connected(state) ==
    IF state # NULL THEN Deref(state).is_connected ELSE FALSE

(* ------------------------------------------------------------------ *)
(* mqtt/mqtt_impl.c                                                    *)
(* ------------------------------------------------------------------ *)

\* esp_mqtt_event_id_t values the handler is given.
MQTT_EVENT_CONNECTED == "MQTT_EVENT_CONNECTED"

MQTT_EVENT_DISCONNECTED == "MQTT_EVENT_DISCONNECTED"

MQTT_EVENT_SUBSCRIBED == "MQTT_EVENT_SUBSCRIBED"

mqtt_event_ids == { MQTT_EVENT_CONNECTED, MQTT_EVENT_DISCONNECTED, MQTT_EVENT_SUBSCRIBED }

\* The callbacks argument of mqtt_init: NULL or a mqtt_event_callbacks_t,
\* of which each member is a function (TRUE) or NULL (FALSE).
MqttCallbackArgs ==
    { NULL } \cup { PtrTo([ on_connected |-> c, on_disconnected |-> d ]) :
                        c \in BOOLEAN, d \in BOOLEAN }

\* Variant of mqtt_event_handler_cb that restarts the client before it
\* tells the application.
mqtt_event_handler_cb_StartFirst(state, callbacks, event_id) ==
    CASE event_id = MQTT_EVENT_CONNECTED ->
           LET out == mqtt_retry_on_connected(PtrTo(state))
           IN  [ state  |-> Deref(out.state),
                 result |-> out.result,
                 did    |-> << "mqtt_retry_on_connected" >>
                            \o ( IF out.result.should_callback_connected
                                    /\ callbacks.on_connected
                                 THEN << "on_connected" >> ELSE << >> ) ]
      [] event_id = MQTT_EVENT_DISCONNECTED ->
           LET out == mqtt_retry_on_disconnect(PtrTo(state))
           IN  [ state  |-> Deref(out.state),
                 result |-> out.result,
                 did    |-> << "mqtt_retry_on_disconnect" >>
                            \o ( IF out.result.action = MQTT_RETRY_ACTION_RECONNECT
                                 THEN << "mqtt_hal_client_start" >> ELSE << >> )
                            \o ( IF out.result.should_callback_disconnected
                                    /\ callbacks.on_disconnected
                                 THEN << "on_disconnected" >> ELSE << >> ) ]
      [] OTHER ->
           [ state |-> state, result |-> mqtt_zero_result, did |-> << >> ]

\* mqtt_event_handler_cb (lines 47-105) on s_retry_state and
\* s_mqtt_callbacks: the state after the event, the policy's result and, in
\* order, the calls made.
mqtt_event_handler_cb(state, callbacks, event_id) ==
    CASE event_id = MQTT_EVENT_CONNECTED ->
           LET out == mqtt_retry_on_connected(PtrTo(state))
           IN  [ state  |-> Deref(out.state),
                 result |-> out.result,
                 did    |-> << "mqtt_retry_on_connected" >>
                            \o ( IF out.result.should_callback_connected
                                    /\ callbacks.on_connected
                                 THEN << "on_connected" >> ELSE << >> ) ]
      [] event_id = MQTT_EVENT_DISCONNECTED ->
           LET out == mqtt_retry_on_disconnect(PtrTo(state))
           IN  [ state  |-> Deref(out.state),
                 result |-> out.result,
                 did    |-> << "mqtt_retry_on_disconnect" >>
                            \o ( IF out.result.should_callback_disconnected
                                    /\ callbacks.on_disconnected
                                 THEN << "on_disconnected" >> ELSE << >> )
                            \o ( IF out.result.action = MQTT_RETRY_ACTION_RECONNECT
                                 THEN << "mqtt_hal_client_start" >> ELSE << >> ) ]
      [] OTHER ->
           [ state |-> state, result |-> mqtt_zero_result, did |-> << >> ]

(* ------------------------------------------------------------------ *)
(* smart_garage_door.c: the queue-driven door handler                  *)
(* ------------------------------------------------------------------ *)

\* enum GarageDoorState
Closed == 0
Open == 1
Closing == 2
Opening == 3
Unknown == 4

GarageDoorState == { Closed, Open, Closing, Opening, Unknown }

\* What the state machine queue carries (lines 54-61).
REED_SWITCH_TAG == "reed_switch"

TIMER_FINISHED == "timer_finished"

COMMAND_OPEN == "OPEN"

COMMAND_CLOSE == "CLOSE"

QueueInputs == { REED_SWITCH_TAG, TIMER_FINISHED, COMMAND_OPEN, COMMAND_CLOSE }

\* gpio_get_level(REED_SWITCH_INPUT_GPIO)
ReedSwitchLevels == { 0, 1 }

\* Variant of setGarageStateValue that arms no timer for Opening.
setGarageStateValue_OpeningNoTimer(newState) ==
    [ garageDoorState |-> newState,
      timer           |-> newState = Closing ]

\* setGarageStateValue (lines 160-187): the state is stored and published,
\* and Closing and Opening start the notify timeout timer.
setGarageStateValue(newState) ==
    [ garageDoorState |-> newState,
      timer           |-> newState \in { Closing, Opening } ]

\* One input taken from the queue by state_machine_handler (lines 191-265):
\* the door state after it, whether the button press task was started and
\* whether the timeout timer was armed.
state_machine_handler(state, input, reedSwitchLevel) ==
    LET stay == [ garageDoorState |-> state, button |-> FALSE, timer |-> FALSE ]
        set(newState, button) ==
            [ garageDoorState |-> setGarageStateValue(newState).garageDoorState,
              button          |-> button,
              timer           |-> setGarageStateValue(newState).timer ]
    IN  CASE state = Closed ->
               IF input = REED_SWITCH_TAG
               THEN IF reedSwitchLevel = 1 THEN set(Opening, FALSE) ELSE stay
               ELSE IF input = COMMAND_OPEN THEN set(Opening, TRUE)
               ELSE stay
          [] state = Open ->
               IF input = REED_SWITCH_TAG
               THEN IF reedSwitchLevel = 0 THEN set(Closed, FALSE) ELSE stay
               ELSE IF input = COMMAND_CLOSE THEN set(Closing, TRUE)
               ELSE stay
          [] state = Closing ->
               IF input = REED_SWITCH_TAG
               THEN IF reedSwitchLevel = 0 THEN set(Closed, FALSE) ELSE stay
               ELSE IF input = TIMER_FINISHED THEN set(Unknown, FALSE)
               ELSE stay
          [] state = Opening ->
               IF input = REED_SWITCH_TAG
               THEN IF reedSwitchLevel = 0 THEN set(Closed, FALSE) ELSE stay
               ELSE IF input = TIMER_FINISHED THEN set(Open, FALSE)
               ELSE stay
          [] state = Unknown ->
               IF input = REED_SWITCH_TAG
               THEN IF reedSwitchLevel = 0 THEN set(Closed, FALSE) ELSE set(Open, FALSE)
               ELSE IF input = COMMAND_OPEN THEN set(Opening, TRUE)
               ELSE IF input = COMMAND_CLOSE THEN set(Closing, TRUE)
               ELSE stay
          [] OTHER -> stay

\* The event garage_sm_process_event is given for an input of the queue.
EventOfInput(input, reedSwitchLevel) ==
    CASE input = REED_SWITCH_TAG /\ reedSwitchLevel = 0 -> GARAGE_EVENT_SENSOR_CLOSED
      [] input = REED_SWITCH_TAG /\ reedSwitchLevel # 0 -> GARAGE_EVENT_SENSOR_OPEN
      [] input = COMMAND_OPEN                           -> GARAGE_EVENT_COMMAND_OPEN
      [] input = COMMAND_CLOSE                          -> GARAGE_EVENT_COMMAND_CLOSE
      [] input = TIMER_FINISHED                         -> GARAGE_EVENT_TIMER_EXPIRED

\* The garage_state_t value that stands for a GarageDoorState value.
StateOfDoor(state) ==
    CASE state = Closed  -> GARAGE_STATE_CLOSED
      [] state = Open    -> GARAGE_STATE_OPEN
      [] state = Closing -> GARAGE_STATE_CLOSING
      [] state = Opening -> GARAGE_STATE_OPENING
      [] OTHER           -> GARAGE_STATE_UNKNOWN

(* ------------------------------------------------------------------ *)
(* wifi_impl.c with the retry logic inline                             *)
(* ------------------------------------------------------------------ *)

\* The default of maximum_wifi_retries (lines 19 and 26).
ESP_MAXIMUM_WIFI_RETRY == 10

\* What the handler did with an event that is none of the three.
legacy_wifi_nothing ==
    [ connect |-> FALSE, fail_bit |-> FALSE, callback |-> FALSE,
      callback_retry_count |-> 0 ]

\* Variant of the inline handler that counts the retry after the callback.
legacy_wifi_event_handler_LateCount(num, max, event_id) ==
    IF event_id = "WIFI_EVENT_STA_DISCONNECTED"
    THEN IF num < max
         THEN [ s_retry_num |-> num + 1,
                did |-> [ legacy_wifi_nothing EXCEPT
                            !.connect = TRUE,
                            !.callback = TRUE,
                            !.callback_retry_count = num ] ]
         ELSE [ s_retry_num |-> num,
                did |-> [ legacy_wifi_nothing EXCEPT
                            !.fail_bit = TRUE,
                            !.callback = TRUE,
                            !.callback_retry_count = num ] ]
    ELSE IF event_id = "IP_EVENT_STA_GOT_IP"
    THEN [ s_retry_num |-> 0, did |-> legacy_wifi_nothing ]
    ELSE [ s_retry_num |-> num, did |-> legacy_wifi_nothing ]

\* wifi_event_handler of src/main/wifi_impl.c (lines 137-170) on
\* s_retry_num and maximum_wifi_retries: the count after the event, whether
\* esp_wifi_connect was called, whether WIFI_FAIL_BIT was set, and the
\* value handed to the on_disconnected callback.
legacy_wifi_event_handler(num, max, event_id) ==
    IF event_id = "WIFI_EVENT_STA_DISCONNECTED"
    THEN IF num < max
         THEN [ s_retry_num |-> num + 1,
                did |-> [ legacy_wifi_nothing EXCEPT
                            !.connect = TRUE,
                            !.callback = TRUE,
                            !.callback_retry_count = num + 1 ] ]
         ELSE [ s_retry_num |-> num,
                did |-> [ legacy_wifi_nothing EXCEPT
                            !.fail_bit = TRUE,
                            !.callback = TRUE,
                            !.callback_retry_count = num ] ]
    ELSE IF event_id = "IP_EVENT_STA_GOT_IP"
    THEN [ s_retry_num |-> 0, did |-> legacy_wifi_nothing ]
    ELSE [ s_retry_num |-> num, did |-> legacy_wifi_nothing ]

\* wifi_retry_timer_callback of src/main/wifi_impl.c (lines 84-89): the
\* count is reset and wifi_wait_connected calls esp_wifi_connect.
legacy_wifi_retry_timer_callback(num) ==
    [ s_retry_num |-> 0,
      did |-> [ legacy_wifi_nothing EXCEPT !.connect = TRUE ] ]

(* ------------------------------------------------------------------ *)
(* State                                                               *)
(* ------------------------------------------------------------------ *)

VARIABLES
    sm,       \* the garage_state_machine_t the caller owns
    result,   \* the garage_transition_result_t returned by the last call
    call,     \* the last call: function, arguments, and the machine before it
    got,      \* the value returned by the last garage_sm_get_state call
    run,      \* history of the timer ticks since the timer last stood at 0
    str,      \* the last garage_state_to_string call: argument and string
    born,     \* history: the initial_state the machine was last initialised with
    calls     \* number of calls made so far

VARIABLES
    wifi_state,   \* the wifi_retry_state_t the caller owns
    wifi_result,  \* the wifi_retry_result_t returned by the last call
    wifi_call,    \* the last call: function, NULL or not, the state before it
    wifi_got,     \* the value returned by the last getter call
    wifi_streak   \* history: on_disconnect calls since init, and whether no
                  \* on_connected or on_timer_expired call came between;
                  \* on_disconnect calls since the last init, on_connected or
                  \* on_timer_expired call, and which of the three it was;
                  \* whether an on_disconnect call returned Fail since
                  \* the last init or on_connected call; whether the last
                  \* policy call on the state was an on_connected call that
                  \* returned StopTimer, and whether the one before was too

VARIABLES
    mqtt_state,   \* the mqtt_retry_state_t the caller owns
    mqtt_result,  \* the mqtt_retry_result_t returned by the last call
    mqtt_call,    \* the last call: function, NULL or not, the state before it
    mqtt_got,     \* the value returned by the last getter call
    mqtt_ndisc    \* history: mqtt_retry_on_disconnect calls made since init

VARIABLES
    s_retry_state,               \* wifi_impl.c: the retry state shared by the tasks
    s_wifi_event_group,          \* wifi_impl.c: the event group the handle names
    s_wifi_retry_timer_handle,   \* wifi_impl.c: the long-interval retry timer
    link,         \* WiFi driver: "off", "idle", "connecting" or "up"
    evq,          \* event loop: events posted and not yet dispatched
    main_pc,      \* position of the task that runs wifi_init_sta
    main_bits,    \* bits xEventGroupWaitBits returned to that task
    ev_pc,        \* position of the event loop task in wifi_event_handler
    ev_reg,       \* retry_count as the event loop task last loaded it
    ev_result,    \* result of the policy call the handler is acting on
    tm_pc,        \* position of the timer service task in the timer callback
    tm_bits,      \* bits xEventGroupWaitBits returned to that task
    halted        \* the firmware has faulted on a dead event group

VARIABLES
    garageDoorState,        \* smart_garage_door.c: the door state of the queue-driven handler
    legacy_door,            \* what state_machine_handler did with its last input
    maximum_wifi_retries,   \* wifi_impl.c as it was: the retry budget
    s_retry_num,            \* wifi_impl.c as it was: the retries made
    legacy_wifi             \* what the handler of wifi_impl.c as it was did with its last event

VARIABLES
    s_mqtt_handle,      \* mqtt_impl.c: the client handle, "NULL" or a client
    s_mqtt_callbacks,   \* mqtt_impl.c: which callbacks are registered (not NULL)
    mqtt_registered,    \* mqtt_event_handler is registered with a client
    mqtt_log            \* the last operation of mqtt_impl.c and, in order, what it did

doorVars == << sm, result, call, got, run, str, born >>

wifiVars == << wifi_state, wifi_result, wifi_call, wifi_got, wifi_streak >>

mqttVars == << mqtt_state, mqtt_result, mqtt_call, mqtt_got, mqtt_ndisc >>

taskVars == << s_retry_state, s_wifi_event_group, s_wifi_retry_timer_handle,
              link, evq, main_pc, main_bits, ev_pc, ev_reg, ev_result,
              tm_pc, tm_bits, halted >>

legacyVars == << garageDoorState, legacy_door, maximum_wifi_retries,
                s_retry_num, legacy_wifi >>

clientVars == << s_mqtt_handle, s_mqtt_callbacks, mqtt_registered, mqtt_log >>

vars == << doorVars, wifiVars, mqttVars, taskVars, legacyVars, clientVars, calls >>

\* A specification drives one of the three machines; the other two stay as
\* their static storage starts.
DoorIdle ==
    /\ sm = Deref(garage_sm_init(PtrTo(0), GARAGE_STATE_UNKNOWN))
    /\ result = error_result
    /\ call = [ fn |-> "init", null |-> FALSE, event |-> GARAGE_EVENT_NONE,
                delta |-> 0, pre |-> sm ]
    /\ got = GARAGE_STATE_UNKNOWN
    /\ run = [ on |-> FALSE, sum |-> 0, state0 |-> GARAGE_STATE_UNKNOWN ]
    /\ str = [ state |-> GARAGE_STATE_UNKNOWN,
               string |-> garage_state_to_string(GARAGE_STATE_UNKNOWN) ]
    /\ born = GARAGE_STATE_UNKNOWN

\* No policy call has been made on the state since wifi_retry_init.
NoStreak ==
    [ n |-> 0, only |-> TRUE, since |-> 0, cycle |-> "init", failed |-> FALSE,
      stop |-> FALSE, twice |-> FALSE ]

WifiIdle ==
    /\ wifi_state = Deref(wifi_retry_init(PtrTo(0), 0, 0))
    /\ wifi_result = wifi_zero_result
    /\ wifi_call = [ fn |-> "init", null |-> FALSE, pre |-> wifi_state ]
    /\ wifi_got = 0
    /\ wifi_streak = NoStreak

MqttIdle ==
    /\ mqtt_state = Deref(mqtt_retry_init(PtrTo(0), FALSE))
    /\ mqtt_result = mqtt_zero_result
    /\ mqtt_call = [ fn |-> "init", null |-> FALSE, pre |-> mqtt_state ]
    /\ mqtt_got = 0
    /\ mqtt_ndisc = 0

\* The WiFi integration before wifi_init_sta is called: the statics of
\* wifi_impl.c as they are initialised (lines 21-24), no task in the code.
TasksIdle ==
    /\ s_retry_state = [ retry_count             |-> 0,
                         max_retries             |-> 0,
                         retry_interval_ms       |-> 0,
                         is_connected            |-> FALSE,
                         timer_should_be_running |-> FALSE ]
    /\ s_wifi_event_group = [ alive |-> FALSE, bits |-> {} ]
    /\ s_wifi_retry_timer_handle = "NULL"
    /\ link = "off"
    /\ evq = << >>
    /\ main_pc = "start"
    /\ main_bits = {}
    /\ ev_pc = "idle"
    /\ ev_reg = 0
    /\ ev_result = wifi_zero_result
    /\ tm_pc = "idle"
    /\ tm_bits = {}
    /\ halted = FALSE

\* The statics of smart_garage_door.c (line 81) and of wifi_impl.c as it was
\* (lines 26-32) as they are initialised, no input handled.
LegacyIdle ==
    /\ garageDoorState = Unknown
    /\ legacy_door = [ input |-> "none", level |-> 0, button |-> FALSE, timer |-> FALSE ]
    /\ maximum_wifi_retries = ESP_MAXIMUM_WIFI_RETRY
    /\ s_retry_num = 0
    /\ legacy_wifi = [ event |-> "none", did |-> legacy_wifi_nothing ]

\* The statics of mqtt_impl.c as they are initialised (lines 10-13), no
\* client created.
ClientIdle ==
    /\ s_mqtt_handle = "NULL"
    /\ s_mqtt_callbacks = [ on_connected |-> FALSE, on_disconnected |-> FALSE ]
    /\ mqtt_registered = FALSE
    /\ mqtt_log = [ op |-> "none", did |-> << >> ]

(* ------------------------------------------------------------------ *)
(* The door state machine and its callers                              *)
(* ------------------------------------------------------------------ *)

\* Which machine pointer a call is given: NULL or the caller's machine.
Args == { NULL, PtrTo(sm) }

NoCall == [ fn |-> "init", null |-> FALSE, event |-> GARAGE_EVENT_NONE,
            delta |-> 0, pre |-> sm ]

NoRun == [ on |-> FALSE, sum |-> 0, state0 |-> GARAGE_STATE_UNKNOWN ]

\* The run of ticks a call starts from: a fresh one when the timer is active
\* at 0, the current one while the timer stays active, none otherwise.
RunBase ==
    IF sm.timer_active /\ sm.timer_elapsed_ms = 0
    THEN [ on |-> TRUE, sum |-> 0, state0 |-> sm.current_state ]
    ELSE IF sm.timer_active THEN run ELSE NoRun

\* The machines garage_sm_init and garage_sm_init_with_config can produce.
InitialMachines ==
    LET blank == [ current_state |-> GARAGE_STATE_UNKNOWN, timeout_ms |-> 0,
                   timer_elapsed_ms |-> 0, timer_active |-> FALSE ]
    IN  { Deref(garage_sm_init(PtrTo(blank), s)) : s \in garage_state_t }
        \cup
        { Deref(garage_sm_init_with_config(PtrTo(blank), s, c)) :
              s \in garage_state_t, c \in Configs }

Init ==
    /\ sm \in InitialMachines
    /\ result = no_change(PtrTo(sm))
    /\ call = NoCall
    /\ got = sm.current_state
    /\ run = NoRun
    /\ str = [ state |-> sm.current_state,
               string |-> garage_state_to_string(sm.current_state) ]
    /\ born = sm.current_state
    /\ calls = 0
    /\ WifiIdle
    /\ MqttIdle
    /\ TasksIdle
    /\ LegacyIdle
    /\ ClientIdle

\* garage_sm_process_event(p, event).  The call is recorded with "repeat":
\* the call before it was the same call, with the same event, on the machine.
ProcessEvent ==
    \E p \in Args, event \in garage_event_t :
        LET out == garage_sm_process_event(p, event)
        IN  /\ calls < MaxCalls
            /\ sm' = IF p = NULL THEN sm ELSE Deref(out.sm)
            /\ result' = out.result
            /\ call' = [ fn |-> "process_event", null |-> (p = NULL),
                         event |-> event, delta |-> 0, pre |-> sm,
                         repeat |-> /\ p # NULL
                                    /\ call.fn = "process_event"
                                    /\ ~call.null
                                    /\ call.event = event ]
            /\ run' = NoRun
            /\ calls' = calls + 1
            /\ UNCHANGED << got, str, born, wifiVars, mqttVars, taskVars, legacyVars, clientVars >>

\* garage_sm_update_timer(p, delta_ms)
UpdateTimer ==
    \E p \in Args, delta_ms \in Deltas :
        \E out \in garage_sm_update_timer(p, delta_ms) :
            /\ calls < MaxCalls
            /\ sm' = IF p = NULL THEN sm ELSE Deref(out.sm)
            /\ result' = out.result
            /\ call' = [ fn |-> "update_timer", null |-> (p = NULL),
                         event |-> GARAGE_EVENT_NONE, delta |-> delta_ms, pre |-> sm ]
            /\ run' = IF p # NULL /\ delta_ms >= 0 /\ RunBase.on
                      THEN [ RunBase EXCEPT !.sum = RunBase.sum + delta_ms ]
                      ELSE NoRun
            /\ calls' = calls + 1
            /\ UNCHANGED << got, str, born, wifiVars, mqttVars, taskVars, legacyVars, clientVars >>

\* garage_sm_get_state(p)
GetState ==
    \E p \in Args :
        /\ calls < MaxCalls
        /\ got' = garage_sm_get_state(p)
        /\ call' = [ fn |-> "get_state", null |-> (p = NULL),
                     event |-> GARAGE_EVENT_NONE, delta |-> 0, pre |-> sm ]
        /\ calls' = calls + 1
        /\ UNCHANGED << sm, result, run, str, born, wifiVars, mqttVars, taskVars, legacyVars, clientVars >>

\* garage_state_to_string(state)
StateToString ==
    \E state \in garage_state_t :
        /\ calls < MaxCalls
        /\ str' = [ state |-> state, string |-> garage_state_to_string(state) ]
        /\ call' = [ fn |-> "state_to_string", null |-> FALSE,
                     event |-> GARAGE_EVENT_NONE, delta |-> 0, pre |-> sm ]
        /\ calls' = calls + 1
        /\ UNCHANGED << sm, result, got, run, born, wifiVars, mqttVars, taskVars, legacyVars, clientVars >>

Next == ProcessEvent \/ UpdateTimer \/ GetState \/ StateToString

Spec == Init /\ [][Next]_vars

(* ------------------------------------------------------------------ *)
(* Initialisation of a door machine                                    *)
(* ------------------------------------------------------------------ *)

\* Machines an initialisation call can be handed: fresh ones and ones that
\* have processed an event since they were initialised.
UsedMachines ==
    InitialMachines
    \cup { Deref(garage_sm_process_event(PtrTo(m), e).sm) :
              m \in InitialMachines, e \in garage_event_t }

InitInit ==
    /\ sm \in UsedMachines
    /\ result = no_change(PtrTo(sm))
    /\ call = NoCall
    /\ got = sm.current_state
    /\ run = NoRun
    /\ str = [ state |-> sm.current_state,
               string |-> garage_state_to_string(sm.current_state) ]
    /\ born = sm.current_state
    /\ calls = 0
    /\ WifiIdle
    /\ MqttIdle
    /\ TasksIdle
    /\ LegacyIdle
    /\ ClientIdle

\* garage_sm_init(p, initial_state) and
\* garage_sm_init_with_config(p, initial_state, config) on a machine that may
\* have been in use.  The call is recorded with its arguments.
InitMachine ==
    \E p \in Args, initial_state \in garage_state_t,
       with_config \in BOOLEAN, config \in Configs :
        /\ calls < MaxCalls
        /\ ~with_config => config = NULL
        /\ sm' = IF p = NULL THEN sm
                  ELSE IF with_config
                       THEN Deref(garage_sm_init_with_config(p, initial_state, config))
                       ELSE Deref(garage_sm_init(p, initial_state))
        /\ born' = IF p = NULL THEN born ELSE initial_state
        /\ call' = [ fn |-> IF with_config THEN "init_with_config" ELSE "init_machine",
                     null |-> (p = NULL), event |-> GARAGE_EVENT_NONE,
                     delta |-> 0, pre |-> sm,
                     initial_state |-> initial_state, config |-> config ]
        /\ run' = NoRun
        /\ calls' = calls + 1
        /\ UNCHANGED << result, got, str, wifiVars, mqttVars, taskVars, legacyVars, clientVars >>

NextInit == InitMachine \/ GetState

SpecInit == InitInit /\ [][NextInit]_vars

(* ------------------------------------------------------------------ *)
(* The door machine driven with ticks that do not go back              *)
(* ------------------------------------------------------------------ *)

\* garage_sm_update_timer(p, delta_ms) with delta_ms >= 0.
UpdateTimerForward == UpdateTimer /\ call'.delta >= 0

NextForward == ProcessEvent \/ UpdateTimerForward

SpecForward == Init /\ [][NextForward]_vars

(* ------------------------------------------------------------------ *)
(* A door in motion that receives ticks and nothing else               *)
(* ------------------------------------------------------------------ *)

\* Positive delta_ms values handed to garage_sm_update_timer.
TickDeltas == { 2, 7500, INT_MAX }

\* An accepted command has just set the door in motion.
InitTicks ==
    \E m \in InitialMachines,
       event \in { GARAGE_EVENT_COMMAND_OPEN, GARAGE_EVENT_COMMAND_CLOSE } :
        LET out == garage_sm_process_event(PtrTo(m), event)
        IN  /\ out.result.actions.start_timeout_timer
            /\ sm = Deref(out.sm)
            /\ result = out.result
            /\ call = [ fn |-> "process_event", null |-> FALSE, event |-> event,
                        delta |-> 0, pre |-> m, repeat |-> FALSE ]
            /\ got = m.current_state
            /\ run = NoRun
            /\ str = [ state |-> m.current_state,
                       string |-> garage_state_to_string(m.current_state) ]
            /\ born = m.current_state
            /\ calls = 0
            /\ WifiIdle
            /\ MqttIdle
            /\ TasksIdle
            /\ LegacyIdle
            /\ ClientIdle

\* garage_sm_update_timer(&sm, delta_ms) with delta_ms > 0, as often as the
\* caller's loop runs.
Tick ==
    \E delta_ms \in TickDeltas :
        \E out \in garage_sm_update_timer(PtrTo(sm), delta_ms) :
            /\ sm' = Deref(out.sm)
            /\ result' = out.result
            /\ call' = [ fn |-> "update_timer", null |-> FALSE,
                         event |-> GARAGE_EVENT_NONE, delta |-> delta_ms, pre |-> sm ]
            /\ UNCHANGED << got, run, str, born, calls, wifiVars, mqttVars, taskVars, legacyVars, clientVars >>

\* The ticks keep coming.
SpecTicks == InitTicks /\ [][Tick]_vars /\ WF_vars(Tick)

(* ------------------------------------------------------------------ *)
(* The WiFi retry policy and its callers                               *)
(* ------------------------------------------------------------------ *)

\* Which state pointer a call is given: NULL or the caller's state.
WifiArgs == { NULL, PtrTo(wifi_state) }

\* The states wifi_retry_init can produce.
InitialWifiStates ==
    { Deref(wifi_retry_init(PtrTo(0), m, i)) : m \in WifiMaxRetries, i \in WifiIntervals }

InitWifi ==
    /\ wifi_state \in InitialWifiStates
    /\ wifi_result = wifi_zero_result
    /\ wifi_call = [ fn |-> "init", null |-> FALSE, pre |-> wifi_state ]
    /\ wifi_got = 0
    /\ wifi_streak = NoStreak
    /\ calls = 0
    /\ DoorIdle
    /\ MqttIdle
    /\ TasksIdle
    /\ LegacyIdle
    /\ ClientIdle

\* wifi_retry_init(p, max_retries, retry_interval_ms)
WifiInit ==
    \E p \in WifiArgs, m \in WifiMaxRetries, i \in WifiIntervals :
        /\ calls < MaxCalls
        /\ wifi_state' = IF p = NULL THEN wifi_state
                                     ELSE Deref(wifi_retry_init(p, m, i))
        /\ wifi_call' = [ fn |-> "init", null |-> (p = NULL), pre |-> wifi_state ]
        /\ wifi_streak' = IF p = NULL THEN wifi_streak ELSE NoStreak
        /\ calls' = calls + 1
        /\ UNCHANGED << wifi_result, wifi_got, doorVars, mqttVars, taskVars, legacyVars, clientVars >>

\* wifi_retry_on_disconnect(p)
WifiOnDisconnect ==
    \E p \in WifiArgs :
        LET out == wifi_retry_on_disconnect(p)
        IN  /\ calls < MaxCalls
            /\ wifi_state' = IF p = NULL THEN wifi_state ELSE Deref(out.state)
            /\ wifi_result' = out.result
            /\ wifi_call' = [ fn |-> "on_disconnect", null |-> (p = NULL),
                              pre |-> wifi_state ]
            /\ wifi_streak' = IF p = NULL THEN wifi_streak
                              ELSE [ wifi_streak EXCEPT
                                       !.n = wifi_streak.n + 1,
                                       !.since = wifi_streak.since + 1,
                                       !.failed = wifi_streak.failed
                                                  \/ out.result.action = WIFI_RETRY_ACTION_FAIL,
                                       !.stop = FALSE,
                                       !.twice = FALSE ]
            /\ calls' = calls + 1
            /\ UNCHANGED << wifi_got, doorVars, mqttVars, taskVars, legacyVars, clientVars >>

\* wifi_retry_on_connected(p)
WifiOnConnected ==
    \E p \in WifiArgs :
        LET out == wifi_retry_on_connected(p)
        IN  /\ calls < MaxCalls
            /\ wifi_state' = IF p = NULL THEN wifi_state ELSE Deref(out.state)
            /\ wifi_result' = out.result
            /\ wifi_call' = [ fn |-> "on_connected", null |-> (p = NULL),
                              pre |-> wifi_state, failed |-> wifi_streak.failed,
                              stop |-> wifi_streak.stop ]
            /\ wifi_streak' = IF p = NULL THEN wifi_streak
                              ELSE [ wifi_streak EXCEPT
                                       !.only = FALSE,
                                       !.since = 0,
                                       !.cycle = "on_connected",
                                       !.failed = FALSE,
                                       !.stop = (out.result.action
                                                   = WIFI_RETRY_ACTION_STOP_TIMER),
                                       !.twice = /\ wifi_streak.stop
                                                 /\ out.result.action
                                                    = WIFI_RETRY_ACTION_STOP_TIMER ]
            /\ calls' = calls + 1
            /\ UNCHANGED << wifi_got, doorVars, mqttVars, taskVars, legacyVars, clientVars >>

\* wifi_retry_on_timer_expired(p)
WifiOnTimerExpired ==
    \E p \in WifiArgs :
        LET out == wifi_retry_on_timer_expired(p)
        IN  /\ calls < MaxCalls
            /\ wifi_state' = IF p = NULL THEN wifi_state ELSE Deref(out.state)
            /\ wifi_result' = out.result
            /\ wifi_call' = [ fn |-> "on_timer_expired", null |-> (p = NULL),
                              pre |-> wifi_state ]
            /\ wifi_streak' = IF p = NULL THEN wifi_streak
                              ELSE [ wifi_streak EXCEPT
                                       !.only = FALSE,
                                       !.since = 0,
                                       !.cycle = "on_timer_expired",
                                       !.stop = FALSE,
                                       !.twice = FALSE ]
            /\ calls' = calls + 1
            /\ UNCHANGED << wifi_got, doorVars, mqttVars, taskVars, legacyVars, clientVars >>

\* wifi_retry_get_count(p), wifi_retry_is_connected(p),
\* wifi_retry_should_timer_run(p)
WifiGet ==
    \E p \in WifiArgs, fn \in { "get_count", "is_connected", "should_timer_run" } :
        /\ calls < MaxCalls
        /\ wifi_got' = CASE fn = "get_count"    -> wifi_retry_get_count(p)
                         [] fn = "is_connected" -> wifi_retry_is_connected(p)
                         [] OTHER               -> wifi_retry_should_timer_run(p)
        /\ wifi_call' = [ fn |-> fn, null |-> (p = NULL), pre |-> wifi_state ]
        /\ calls' = calls + 1
        /\ UNCHANGED << wifi_state, wifi_result, wifi_streak, doorVars, mqttVars, taskVars, legacyVars, clientVars >>

NextWifi ==
    WifiInit \/ WifiOnDisconnect \/ WifiOnConnected \/ WifiOnTimerExpired \/ WifiGet

SpecWifi == InitWifi /\ [][NextWifi]_vars

(* ------------------------------------------------------------------ *)
(* The MQTT retry policy and its callers                               *)
(* ------------------------------------------------------------------ *)

\* Which state pointer a call is given: NULL or the caller's state.
MqttArgs == { NULL, PtrTo(mqtt_state) }

\* The states mqtt_retry_init can produce.
InitialMqttStates ==
    { Deref(mqtt_retry_init(PtrTo(0), b)) : b \in BOOLEAN }

InitMqtt ==
    /\ mqtt_state \in InitialMqttStates
    /\ mqtt_result = mqtt_zero_result
    /\ mqtt_call = [ fn |-> "init", null |-> FALSE, pre |-> mqtt_state ]
    /\ mqtt_got = 0
    /\ mqtt_ndisc = 0
    /\ calls = 0
    /\ DoorIdle
    /\ WifiIdle
    /\ TasksIdle
    /\ LegacyIdle
    /\ ClientIdle

\* mqtt_retry_init(p, auto_reconnect)
MqttInit ==
    \E p \in MqttArgs, b \in BOOLEAN :
        /\ calls < MaxCalls
        /\ mqtt_state' = IF p = NULL THEN mqtt_state
                                     ELSE Deref(mqtt_retry_init(p, b))
        /\ mqtt_call' = [ fn |-> "init", null |-> (p = NULL), pre |-> mqtt_state ]
        /\ mqtt_ndisc' = IF p = NULL THEN mqtt_ndisc ELSE 0
        /\ calls' = calls + 1
        /\ UNCHANGED << mqtt_result, mqtt_got, doorVars, wifiVars, taskVars, legacyVars, clientVars >>

\* mqtt_retry_on_disconnect(p)
MqttOnDisconnect ==
    \E p \in MqttArgs :
        LET out == mqtt_retry_on_disconnect(p)
        IN  /\ calls < MaxCalls
            /\ mqtt_state' = IF p = NULL THEN mqtt_state ELSE Deref(out.state)
            /\ mqtt_result' = out.result
            /\ mqtt_call' = [ fn |-> "on_disconnect", null |-> (p = NULL),
                              pre |-> mqtt_state ]
            /\ mqtt_ndisc' = IF p = NULL THEN mqtt_ndisc ELSE mqtt_ndisc + 1
            /\ calls' = calls + 1
            /\ UNCHANGED << mqtt_got, doorVars, wifiVars, taskVars, legacyVars, clientVars >>

\* mqtt_retry_on_connected(p)
MqttOnConnected ==
    \E p \in MqttArgs :
        LET out == mqtt_retry_on_connected(p)
        IN  /\ calls < MaxCalls
            /\ mqtt_state' = IF p = NULL THEN mqtt_state ELSE Deref(out.state)
            /\ mqtt_result' = out.result
            /\ mqtt_call' = [ fn |-> "on_connected", null |-> (p = NULL),
                              pre |-> mqtt_state ]
            /\ calls' = calls + 1
            /\ UNCHANGED << mqtt_got, mqtt_ndisc, doorVars, wifiVars, taskVars, legacyVars, clientVars >>

\* mqtt_retry_get_disconnect_count(p), mqtt_retry_is_connected(p)
MqttGet ==
    \E p \in MqttArgs, fn \in { "get_disconnect_count", "is_connected" } :
        /\ calls < MaxCalls
        /\ mqtt_got' = IF fn = "get_disconnect_count"
                       THEN mqtt_retry_get_disconnect_count(p)
                       ELSE mqtt_retry_is_connected(p)
        /\ mqtt_call' = [ fn |-> fn, null |-> (p = NULL), pre |-> mqtt_state ]
        /\ calls' = calls + 1
        /\ UNCHANGED << mqtt_state, mqtt_result, mqtt_ndisc, doorVars, wifiVars, taskVars, legacyVars, clientVars >>

NextMqtt == MqttInit \/ MqttOnDisconnect \/ MqttOnConnected \/ MqttGet

SpecMqtt == InitMqtt /\ [][NextMqtt]_vars

(* ------------------------------------------------------------------ *)
(* Both retry policies, called in any order                            *)
(* ------------------------------------------------------------------ *)

\* The WiFi policy starts with the interval of wifi_init_sta's caller; the
\* other interval comes with a later wifi_retry_init call.
InitRetry ==
    /\ wifi_state \in InitialWifiStates
    /\ wifi_state.retry_interval_ms # 0
    /\ wifi_result = wifi_zero_result
    /\ wifi_call = [ fn |-> "init", null |-> FALSE, pre |-> wifi_state ]
    /\ wifi_got = 0
    /\ wifi_streak = NoStreak
    /\ mqtt_state \in InitialMqttStates
    /\ mqtt_result = mqtt_zero_result
    /\ mqtt_call = [ fn |-> "init", null |-> FALSE, pre |-> mqtt_state ]
    /\ mqtt_got = 0
    /\ mqtt_ndisc = 0
    /\ calls = 0
    /\ DoorIdle
    /\ TasksIdle
    /\ LegacyIdle
    /\ ClientIdle

NextRetry ==
    \/ WifiInit \/ WifiOnDisconnect \/ WifiOnConnected \/ WifiOnTimerExpired \/ WifiGet
    \/ MqttInit \/ MqttOnDisconnect \/ MqttOnConnected \/ MqttGet

SpecRetry == InitRetry /\ [][NextRetry]_vars

(* ------------------------------------------------------------------ *)
(* The WiFi integration: three tasks around s_retry_state              *)
(* ------------------------------------------------------------------ *)

\* wifi_impl.c lines 11-12.
WIFI_CONNECTED_BIT == 1

WIFI_FAIL_BIT == 2

\* Events the driver posts to the event loop (wifi_impl.c lines 135-158).
WIFI_EVENT_STA_START == "WIFI_EVENT_STA_START"

WIFI_EVENT_STA_DISCONNECTED == "WIFI_EVENT_STA_DISCONNECTED"

IP_EVENT_STA_GOT_IP == "IP_EVENT_STA_GOT_IP"

\* Events the event loop holds at most before the driver has to wait.
MaxQueue == 2

\* Arguments wifi_init_sta is called with.
TaskMaxRetries == { 0, 1 }

TaskIntervals == { 5000 }

\* The machines that are not part of the WiFi integration.
otherVars == << doorVars, wifiVars, mqttVars, legacyVars, clientVars, calls >>

\* wifi_hal_wifi_connect: an idle station starts to associate; the driver
\* answers later with STA_DISCONNECTED or GOT_IP.
wifi_hal_wifi_connect(l) == IF l = "idle" THEN "connecting" ELSE l

\* start_wifi_retry_timer (lines 88-115): the timer is created and started,
\* or reset, which also starts a stopped timer.
start_wifi_retry_timer(handle) == "active"

\* stop_wifi_retry_timer (lines 118-125).
stop_wifi_retry_timer(handle) == IF handle # "NULL" THEN "dormant" ELSE handle

\* What a call on the event group handle can do: the group is live, or the
\* handle names no group or a deleted one and the call is undefined: it is
\* ignored or it faults.
GroupCallOutcomes == IF s_wifi_event_group.alive THEN { "ok" }
                                                 ELSE { "ignored", "fault" }

\* wifi_hal_event_group_set_bits(s_wifi_event_group, bit): a task blocked in
\* xEventGroupWaitBits is released with the bits as they are now.
SetBits(bit, outcome) ==
    LET bits == s_wifi_event_group.bits \cup { bit }
    IN  IF outcome = "ok"
        THEN /\ s_wifi_event_group' = [ s_wifi_event_group EXCEPT !.bits = bits ]
             /\ main_pc' = IF main_pc = "waiting" THEN "woken" ELSE main_pc
             /\ main_bits' = IF main_pc = "waiting" THEN bits ELSE main_bits
             /\ tm_pc' = IF tm_pc = "waiting" THEN "woken" ELSE tm_pc
             /\ tm_bits' = IF tm_pc = "waiting" THEN bits ELSE tm_bits
             /\ halted' = halted
        ELSE /\ halted' = (outcome = "fault")
             /\ UNCHANGED << s_wifi_event_group, main_pc, main_bits, tm_pc, tm_bits >>

\* What wifi_wait_connected does to the timer with the bits it was released
\* with (lines 49-70).
timer_after_wait(bits, handle) ==
    IF WIFI_CONNECTED_BIT \in bits THEN stop_wifi_retry_timer(handle)
    ELSE IF WIFI_FAIL_BIT \in bits THEN start_wifi_retry_timer(handle)
    ELSE handle

\* A policy call on s_retry_state is in progress in the event loop task.
EvInCall == ev_pc \in { "disconnect_clear", "disconnect_test",
                        "disconnect_retry", "disconnect_fail",
                        "connected_set", "connected_flag" }

\* A policy call on s_retry_state is in progress in the timer service task.
TmInCall == tm_pc = "expired_store"

InitWifiTasks ==
    /\ TasksIdle
    /\ LegacyIdle
    /\ ClientIdle
    /\ DoorIdle
    /\ WifiIdle
    /\ MqttIdle
    /\ calls = 0

\* wifi_init_sta (lines 179-211) up to the wait in wifi_wait_connected
\* (lines 34-45): the policy is initialised, the handlers are registered, the
\* event group is created and wifi_start makes the driver post STA_START.
MainInitSta ==
    \E m \in TaskMaxRetries, i \in TaskIntervals :
        /\ ~halted
        /\ main_pc = "start"
        /\ s_retry_state' = Deref(wifi_retry_init(PtrTo(s_retry_state), m, i))
        /\ s_wifi_event_group' = [ alive |-> TRUE, bits |-> {} ]
        /\ link' = "idle"
        /\ evq' = Append(evq, WIFI_EVENT_STA_START)
        /\ main_pc' = "waiting"
        /\ UNCHANGED << s_wifi_retry_timer_handle, main_bits, ev_pc, ev_reg,
                        ev_result, tm_pc, tm_bits, halted, otherVars >>

\* wifi_wait_connected after the wait, in the task of wifi_init_sta
\* (lines 49-70).
MainWake ==
    /\ ~halted
    /\ main_pc = "woken"
    /\ s_wifi_retry_timer_handle' = timer_after_wait(main_bits, s_wifi_retry_timer_handle)
    /\ main_pc' = "delete"
    /\ UNCHANGED << s_retry_state, s_wifi_event_group, link, evq, main_bits,
                    ev_pc, ev_reg, ev_result, tm_pc, tm_bits, halted, otherVars >>

\* wifi_hal_event_group_delete(s_wifi_event_group) in the task of
\* wifi_init_sta (line 72): the group the handle names now is deleted, and a
\* task blocked on it is released with no bit set.
MainDelete ==
    \E outcome \in GroupCallOutcomes :
        /\ ~halted
        /\ main_pc = "delete"
        /\ main_pc' = "done"
        /\ IF outcome = "ok"
           THEN /\ s_wifi_event_group' = [ alive |-> FALSE, bits |-> {} ]
                /\ tm_pc' = IF tm_pc = "waiting" THEN "woken" ELSE tm_pc
                /\ tm_bits' = IF tm_pc = "waiting" THEN {} ELSE tm_bits
                /\ halted' = halted
           ELSE /\ halted' = (outcome = "fault")
                /\ UNCHANGED << s_wifi_event_group, tm_pc, tm_bits >>
        /\ UNCHANGED << s_retry_state, s_wifi_retry_timer_handle, link, evq,
                        main_bits, ev_pc, ev_reg, ev_result, otherVars >>

\* The driver: an association attempt fails.
DriverConnectFailed ==
    /\ ~halted
    /\ link = "connecting"
    /\ Len(evq) < MaxQueue
    /\ link' = "idle"
    /\ evq' = Append(evq, WIFI_EVENT_STA_DISCONNECTED)
    /\ UNCHANGED << s_retry_state, s_wifi_event_group, s_wifi_retry_timer_handle,
                    main_pc, main_bits, ev_pc, ev_reg, ev_result, tm_pc,
                    tm_bits, halted, otherVars >>

\* The driver: an association attempt succeeds and an address is obtained.
DriverGotIp ==
    /\ ~halted
    /\ link = "connecting"
    /\ Len(evq) < MaxQueue
    /\ link' = "up"
    /\ evq' = Append(evq, IP_EVENT_STA_GOT_IP)
    /\ UNCHANGED << s_retry_state, s_wifi_event_group, s_wifi_retry_timer_handle,
                    main_pc, main_bits, ev_pc, ev_reg, ev_result, tm_pc,
                    tm_bits, halted, otherVars >>

\* The driver: an established connection is lost.
DriverLinkLost ==
    /\ ~halted
    /\ link = "up"
    /\ Len(evq) < MaxQueue
    /\ link' = "idle"
    /\ evq' = Append(evq, WIFI_EVENT_STA_DISCONNECTED)
    /\ UNCHANGED << s_retry_state, s_wifi_event_group, s_wifi_retry_timer_handle,
                    main_pc, main_bits, ev_pc, ev_reg, ev_result, tm_pc,
                    tm_bits, halted, otherVars >>

\* wifi_event_handler, STA_START (lines 135-140).
EvStaStart ==
    /\ ~halted
    /\ ev_pc = "idle"
    /\ evq # << >>
    /\ Head(evq) = WIFI_EVENT_STA_START
    /\ evq' = Tail(evq)
    /\ link' = wifi_hal_wifi_connect(link)
    /\ UNCHANGED << s_retry_state, s_wifi_event_group, s_wifi_retry_timer_handle,
                    main_pc, main_bits, ev_pc, ev_reg, ev_result, tm_pc,
                    tm_bits, halted, otherVars >>

\* wifi_event_handler, STA_DISCONNECTED: wifi_retry_on_disconnect is entered
\* (wifi_impl.c lines 141-144).
EvDisconnected ==
    /\ ~halted
    /\ ev_pc = "idle"
    /\ evq # << >>
    /\ Head(evq) = WIFI_EVENT_STA_DISCONNECTED
    /\ evq' = Tail(evq)
    /\ ev_pc' = "disconnect_clear"
    /\ UNCHANGED << s_retry_state, s_wifi_event_group, s_wifi_retry_timer_handle,
                    link, main_pc, main_bits, ev_reg, ev_result, tm_pc,
                    tm_bits, halted, otherVars >>

\* wifi_retry_on_disconnect: state->is_connected = false (line 28).
EvDisconnectClear ==
    /\ ~halted
    /\ ev_pc = "disconnect_clear"
    /\ s_retry_state' = [ s_retry_state EXCEPT !.is_connected = FALSE ]
    /\ ev_pc' = "disconnect_test"
    /\ UNCHANGED << s_wifi_event_group, s_wifi_retry_timer_handle, link, evq,
                    main_pc, main_bits, ev_reg, ev_result, tm_pc, tm_bits,
                    halted, otherVars >>

\* wifi_retry_on_disconnect: retry_count is loaded and tested against
\* max_retries (line 30).
EvDisconnectTest ==
    /\ ~halted
    /\ ev_pc = "disconnect_test"
    /\ ev_reg' = s_retry_state.retry_count
    /\ ev_pc' = IF s_retry_state.retry_count < s_retry_state.max_retries
                THEN "disconnect_retry"
                ELSE "disconnect_fail"
    /\ UNCHANGED << s_retry_state, s_wifi_event_group, s_wifi_retry_timer_handle,
                    link, evq, main_pc, main_bits, ev_result, tm_pc, tm_bits,
                    halted, otherVars >>

\* wifi_retry_on_disconnect: state->retry_count++ and the Connect result
\* (lines 32-35).  The increment uses the value loaded for the test or loads
\* it again: without synchronisation the build may do either.
EvDisconnectRetry ==
    \E v \in { ev_reg, s_retry_state.retry_count } :
        /\ ~halted
        /\ ev_pc = "disconnect_retry"
        /\ s_retry_state' = [ s_retry_state EXCEPT !.retry_count = v + 1 ]
        /\ ev_result' = [ wifi_zero_result EXCEPT
                            !.action = WIFI_RETRY_ACTION_CONNECT,
                            !.should_callback_disconnected = TRUE,
                            !.callback_retry_count = v + 1 ]
        /\ ev_pc' = "disconnect_act"
        /\ UNCHANGED << s_wifi_event_group, s_wifi_retry_timer_handle, link, evq,
                        main_pc, main_bits, ev_reg, tm_pc, tm_bits, halted,
                        otherVars >>

\* wifi_retry_on_disconnect: the Fail result and
\* state->timer_should_be_running = true (lines 38-41).
EvDisconnectFail ==
    /\ ~halted
    /\ ev_pc = "disconnect_fail"
    /\ s_retry_state' = [ s_retry_state EXCEPT !.timer_should_be_running = TRUE ]
    /\ ev_result' = [ wifi_zero_result EXCEPT
                        !.action = WIFI_RETRY_ACTION_FAIL,
                        !.should_callback_disconnected = TRUE,
                        !.callback_retry_count = s_retry_state.retry_count ]
    /\ ev_pc' = "disconnect_act"
    /\ UNCHANGED << s_wifi_event_group, s_wifi_retry_timer_handle, link, evq,
                    main_pc, main_bits, ev_reg, tm_pc, tm_bits, halted,
                    otherVars >>

\* wifi_event_handler, STA_DISCONNECTED, after the policy call: Connect
\* (lines 146-148).
EvDisconnectConnect ==
    /\ ~halted
    /\ ev_pc = "disconnect_act"
    /\ ev_result.action = WIFI_RETRY_ACTION_CONNECT
    /\ link' = wifi_hal_wifi_connect(link)
    /\ ev_pc' = "idle"
    /\ UNCHANGED << s_retry_state, s_wifi_event_group, s_wifi_retry_timer_handle,
                    evq, main_pc, main_bits, ev_reg, ev_result, tm_pc, tm_bits,
                    halted, otherVars >>

\* wifi_event_handler, STA_DISCONNECTED, after the policy call: Fail sets
\* WIFI_FAIL_BIT and starts the retry timer (lines 149-153).
EvDisconnectGiveUp ==
    \E outcome \in GroupCallOutcomes :
        /\ ~halted
        /\ ev_pc = "disconnect_act"
        /\ ev_result.action = WIFI_RETRY_ACTION_FAIL
        /\ SetBits(WIFI_FAIL_BIT, outcome)
        /\ s_wifi_retry_timer_handle' = start_wifi_retry_timer(s_wifi_retry_timer_handle)
        /\ ev_pc' = "idle"
        /\ UNCHANGED << s_retry_state, link, evq, ev_reg, ev_result, otherVars >>

\* wifi_event_handler, GOT_IP: wifi_retry_on_connected is entered
\* (wifi_impl.c lines 158-162).
EvGotIp ==
    /\ ~halted
    /\ ev_pc = "idle"
    /\ evq # << >>
    /\ Head(evq) = IP_EVENT_STA_GOT_IP
    /\ evq' = Tail(evq)
    /\ ev_pc' = "connected_set"
    /\ UNCHANGED << s_retry_state, s_wifi_event_group, s_wifi_retry_timer_handle,
                    link, main_pc, main_bits, ev_reg, ev_result, tm_pc,
                    tm_bits, halted, otherVars >>

\* wifi_retry_on_connected: is_connected = true, retry_count = 0
\* (lines 55-56).
EvConnectedSet ==
    /\ ~halted
    /\ ev_pc = "connected_set"
    /\ s_retry_state' = [ s_retry_state EXCEPT !.is_connected = TRUE,
                                               !.retry_count = 0 ]
    /\ ev_pc' = "connected_flag"
    /\ UNCHANGED << s_wifi_event_group, s_wifi_retry_timer_handle, link, evq,
                    main_pc, main_bits, ev_reg, ev_result, tm_pc, tm_bits,
                    halted, otherVars >>

\* wifi_retry_on_connected: the timer flag is tested and cleared and the
\* result is made (lines 58-65).
EvConnectedFlag ==
    /\ ~halted
    /\ ev_pc = "connected_flag"
    /\ s_retry_state' = [ s_retry_state EXCEPT !.timer_should_be_running = FALSE ]
    /\ ev_result' = [ wifi_zero_result EXCEPT
                        !.action = IF s_retry_state.timer_should_be_running
                                   THEN WIFI_RETRY_ACTION_STOP_TIMER
                                   ELSE WIFI_RETRY_ACTION_NONE,
                        !.should_callback_connected = TRUE ]
    /\ ev_pc' = "connected_act"
    /\ UNCHANGED << s_wifi_event_group, s_wifi_retry_timer_handle, link, evq,
                    main_pc, main_bits, ev_reg, tm_pc, tm_bits, halted,
                    otherVars >>

\* wifi_event_handler, GOT_IP, after the policy call: the timer is stopped
\* on StopTimer and WIFI_CONNECTED_BIT is set (lines 164-168).
EvConnectedAct ==
    \E outcome \in GroupCallOutcomes :
        /\ ~halted
        /\ ev_pc = "connected_act"
        /\ s_wifi_retry_timer_handle' =
              IF ev_result.action = WIFI_RETRY_ACTION_STOP_TIMER
              THEN stop_wifi_retry_timer(s_wifi_retry_timer_handle)
              ELSE s_wifi_retry_timer_handle
        /\ SetBits(WIFI_CONNECTED_BIT, outcome)
        /\ ev_pc' = "idle"
        /\ UNCHANGED << s_retry_state, link, evq, ev_reg, ev_result, otherVars >>

\* The running retry timer expires and the timer service task, not busy
\* with an earlier expiry, enters wifi_retry_timer_callback and
\* wifi_retry_on_timer_expired (wifi_impl.c lines 76-80).
TmFire ==
    /\ ~halted
    /\ s_wifi_retry_timer_handle = "active"
    /\ tm_pc = "idle"
    /\ tm_pc' = "expired_store"
    /\ UNCHANGED << s_retry_state, s_wifi_event_group, s_wifi_retry_timer_handle,
                    link, evq, main_pc, main_bits, ev_pc, ev_reg, ev_result,
                    tm_bits, halted, otherVars >>

\* wifi_retry_on_timer_expired: state->retry_count = 0 and the Connect
\* result (wifi_retry_manager.c lines 79-80).
TmExpiredStore ==
    /\ ~halted
    /\ tm_pc = "expired_store"
    /\ s_retry_state' = [ s_retry_state EXCEPT !.retry_count = 0 ]
    /\ tm_pc' = "expired_act"
    /\ UNCHANGED << s_wifi_event_group, s_wifi_retry_timer_handle, link, evq,
                    main_pc, main_bits, ev_pc, ev_reg, ev_result, tm_bits,
                    halted, otherVars >>

\* wifi_retry_timer_callback after the policy call: wifi_wait_connected
\* creates a new event group under the same handle, connects and waits
\* (wifi_impl.c lines 82-83 and 34-45).  A task still blocked on the group
\* the handle named before can no longer be released.
TmExpiredConnect ==
    /\ ~halted
    /\ tm_pc = "expired_act"
    /\ s_wifi_event_group' = [ alive |-> TRUE, bits |-> {} ]
    /\ main_pc' = IF main_pc = "waiting" THEN "stranded" ELSE main_pc
    /\ link' = wifi_hal_wifi_connect(link)
    /\ tm_pc' = "waiting"
    /\ UNCHANGED << s_retry_state, s_wifi_retry_timer_handle, evq, main_bits,
                    ev_pc, ev_reg, ev_result, tm_bits, halted, otherVars >>

\* wifi_wait_connected after the wait, in the timer service task
\* (lines 49-70).
TmWake ==
    /\ ~halted
    /\ tm_pc = "woken"
    /\ s_wifi_retry_timer_handle' = timer_after_wait(tm_bits, s_wifi_retry_timer_handle)
    /\ tm_pc' = "delete"
    /\ UNCHANGED << s_retry_state, s_wifi_event_group, link, evq, main_pc,
                    main_bits, ev_pc, ev_reg, ev_result, tm_bits, halted,
                    otherVars >>

\* wifi_hal_event_group_delete(s_wifi_event_group) in the timer service task
\* (line 72); the callback returns.
TmDelete ==
    \E outcome \in GroupCallOutcomes :
        /\ ~halted
        /\ tm_pc = "delete"
        /\ tm_pc' = "idle"
        /\ IF outcome = "ok"
           THEN /\ s_wifi_event_group' = [ alive |-> FALSE, bits |-> {} ]
                /\ main_pc' = IF main_pc = "waiting" THEN "woken" ELSE main_pc
                /\ main_bits' = IF main_pc = "waiting" THEN {} ELSE main_bits
                /\ halted' = halted
           ELSE /\ halted' = (outcome = "fault")
                /\ UNCHANGED << s_wifi_event_group, main_pc, main_bits >>
        /\ UNCHANGED << s_retry_state, s_wifi_retry_timer_handle, link, evq,
                        ev_pc, ev_reg, ev_result, tm_bits, otherVars >>

NextWifiTasks ==
    \/ MainInitSta \/ MainWake \/ MainDelete
    \/ DriverConnectFailed \/ DriverGotIp \/ DriverLinkLost
    \/ EvStaStart
    \/ EvDisconnected \/ EvDisconnectClear \/ EvDisconnectTest
    \/ EvDisconnectRetry \/ EvDisconnectFail
    \/ EvDisconnectConnect \/ EvDisconnectGiveUp
    \/ EvGotIp \/ EvConnectedSet \/ EvConnectedFlag \/ EvConnectedAct
    \/ TmFire \/ TmExpiredStore \/ TmExpiredConnect \/ TmWake \/ TmDelete

SpecWifiTasks == InitWifiTasks /\ [][NextWifiTasks]_vars

(* ------------------------------------------------------------------ *)
(* Vocabulary of the properties                                        *)
(* ------------------------------------------------------------------ *)

\* The last call was fn, made on the caller's machine (not on NULL).
Called(fn) == call.fn = fn /\ ~call.null

\* The last call was fn, made on NULL.
CalledNull(fn) == call.fn = fn /\ call.null

\* The machine as it was when the last call was made.
Before == call.pre

\* A result with the given fields.
ResultOf(state, changed, publish, button, timer) ==
    [ new_state     |-> state,
      state_changed |-> changed,
      actions       |-> [ publish_state        |-> publish,
                          trigger_button_press |-> button,
                          start_timeout_timer  |-> timer ] ]

\* The 12 rows of the door transition table: from, event, to, button, timer.
TransitionTable ==
    { << GARAGE_STATE_CLOSED,  GARAGE_EVENT_SENSOR_OPEN,   GARAGE_STATE_OPENING, FALSE, TRUE  >>,
      << GARAGE_STATE_CLOSED,  GARAGE_EVENT_COMMAND_OPEN,  GARAGE_STATE_OPENING, TRUE,  TRUE  >>,
      << GARAGE_STATE_OPEN,    GARAGE_EVENT_SENSOR_CLOSED, GARAGE_STATE_CLOSED,  FALSE, FALSE >>,
      << GARAGE_STATE_OPEN,    GARAGE_EVENT_COMMAND_CLOSE, GARAGE_STATE_CLOSING, TRUE,  TRUE  >>,
      << GARAGE_STATE_CLOSING, GARAGE_EVENT_SENSOR_CLOSED, GARAGE_STATE_CLOSED,  FALSE, FALSE >>,
      << GARAGE_STATE_CLOSING, GARAGE_EVENT_TIMER_EXPIRED, GARAGE_STATE_UNKNOWN, FALSE, FALSE >>,
      << GARAGE_STATE_OPENING, GARAGE_EVENT_SENSOR_CLOSED, GARAGE_STATE_CLOSED,  FALSE, FALSE >>,
      << GARAGE_STATE_OPENING, GARAGE_EVENT_TIMER_EXPIRED, GARAGE_STATE_OPEN,    FALSE, FALSE >>,
      << GARAGE_STATE_UNKNOWN, GARAGE_EVENT_SENSOR_CLOSED, GARAGE_STATE_CLOSED,  FALSE, FALSE >>,
      << GARAGE_STATE_UNKNOWN, GARAGE_EVENT_SENSOR_OPEN,   GARAGE_STATE_OPEN,    FALSE, FALSE >>,
      << GARAGE_STATE_UNKNOWN, GARAGE_EVENT_COMMAND_OPEN,  GARAGE_STATE_OPENING, TRUE,  TRUE  >>,
      << GARAGE_STATE_UNKNOWN, GARAGE_EVENT_COMMAND_CLOSE, GARAGE_STATE_CLOSING, TRUE,  TRUE  >> }

\* (state, event) is the left side of a row of the table.
InTable(state, event) ==
    \E row \in TransitionTable : row[1] = state /\ row[2] = event

\* The exact sum the last garage_sm_update_timer call computed.
TickSum == Before.timer_elapsed_ms + call.delta

(* ------------------------------------------------------------------ *)
(* Properties                                                          *)
(* ------------------------------------------------------------------ *)

\* C1: for each of the 12 rows of the transition table, a
\* garage_sm_process_event call made in the row's state with the row's event
\* leaves current_state at the row's target and returns the row's target,
\* state_changed = publish_state = true and the row's button and timer flags.
C1_TransitionTableRows ==
    Called("process_event") =>
        \A row \in TransitionTable :
            (Before.current_state = row[1] /\ call.event = row[2]) =>
                /\ sm.current_state = row[3]
                /\ result = ResultOf(row[3], TRUE, TRUE, row[4], row[5])

\* The reversal row: Opening + SensorClosed has been processed.
C1_Witness ==
    /\ Called("process_event")
    /\ Before.current_state = GARAGE_STATE_OPENING
    /\ call.event = GARAGE_EVENT_SENSOR_CLOSED
    /\ sm.current_state = GARAGE_STATE_CLOSED

\* C2: for every (state, event) pair that is not a row of the table,
\* garage_sm_process_event leaves current_state unchanged and returns
\* new_state = the current state, state_changed = false and no action flag.
C2_UnlistedPairsAreNoOps ==
    (Called("process_event") /\ ~InTable(Before.current_state, call.event)) =>
        /\ sm.current_state = Before.current_state
        /\ result = ResultOf(Before.current_state, FALSE, FALSE, FALSE, FALSE)

\* A command has been processed while the door was Opening.
C2_Witness ==
    /\ Called("process_event")
    /\ Before.current_state = GARAGE_STATE_OPENING
    /\ call.event = GARAGE_EVENT_COMMAND_CLOSE
    /\ Before.timer_active

\* C3: every result returned by garage_sm_process_event or
\* garage_sm_update_timer, on a machine or on NULL, has
\* state_changed = publish_state.
C3_ChangedIffPublish ==
    call.fn \in { "process_event", "update_timer" } =>
        (result.state_changed <=> result.actions.publish_state)

\* A timer tick has returned a result that reports a state change.
C3_Witness ==
    /\ Called("update_timer")
    /\ result.state_changed
    /\ result.actions.publish_state

\* C4: after a garage_sm_process_event or garage_sm_update_timer call that
\* returns new_state Closed or Open, the timer is inactive and the elapsed
\* time is 0.
C4_SettledStateClearsTimer ==
    ( /\ Called("process_event") \/ Called("update_timer")
      /\ result.new_state \in { GARAGE_STATE_CLOSED, GARAGE_STATE_OPEN } ) =>
        /\ ~sm.timer_active
        /\ sm.timer_elapsed_ms = 0

\* An event has settled the door while the timer was running past 0.
C4_Witness ==
    /\ Called("process_event")
    /\ Before.timer_active
    /\ Before.timer_elapsed_ms > 0
    /\ result.new_state \in { GARAGE_STATE_CLOSED, GARAGE_STATE_OPEN }

\* C5: a garage_sm_process_event call that changes the state to Opening or
\* Closing returns start_timeout_timer = true and leaves the timer active
\* with elapsed time 0, whatever the timer fields were before.
C5_MotionStartsTimer ==
    ( /\ Called("process_event")
      /\ result.state_changed
      /\ result.new_state \in { GARAGE_STATE_OPENING, GARAGE_STATE_CLOSING } ) =>
        /\ result.actions.start_timeout_timer
        /\ sm.timer_active
        /\ sm.timer_elapsed_ms = 0

\* The door has been set in motion while a timer was already running past 0.
C5_Witness ==
    /\ Called("process_event")
    /\ Before.timer_active
    /\ Before.timer_elapsed_ms > 0
    /\ result.state_changed
    /\ sm.current_state \in { GARAGE_STATE_OPENING, GARAGE_STATE_CLOSING }

\* C6: from a machine whose timer is active at 0, garage_sm_update_timer
\* calls with non-negative deltas summing to at most timeout_ms - 1 return
\* state_changed = false, keep the state and keep the timer active; and the
\* call with delta 1 that follows a sum of exactly timeout_ms - 1 returns
\* state_changed = true.
C6_TimeoutThreshold ==
    (Called("update_timer") /\ run.on) =>
        /\ run.sum <= Before.timeout_ms - 1 =>
              /\ ~result.state_changed
              /\ sm.current_state = run.state0
              /\ sm.timer_active
        /\ (run.sum = Before.timeout_ms /\ call.delta = 1) =>
              result.state_changed

\* C7: a garage_sm_update_timer call whose sum reaches timeout_ms leaves the
\* timer inactive at 0 and returns what TimerExpired yields: Open from
\* Opening and Unknown from Closing, with state_changed and publish_state
\* true and no button press or timer start.  (Stated for sums that are ints;
\* an overflowing sum has no defined value to compare with timeout_ms.)
C7_ExpiryDispatchesTimerExpired ==
    ( /\ Called("update_timer")
      /\ Before.timer_active
      /\ ~Overflows(TickSum)
      /\ TickSum >= Before.timeout_ms ) =>
        /\ ~sm.timer_active
        /\ sm.timer_elapsed_ms = 0
        /\ Before.current_state = GARAGE_STATE_OPENING =>
              /\ sm.current_state = GARAGE_STATE_OPEN
              /\ result = ResultOf(GARAGE_STATE_OPEN, TRUE, TRUE, FALSE, FALSE)
        /\ Before.current_state = GARAGE_STATE_CLOSING =>
              /\ sm.current_state = GARAGE_STATE_UNKNOWN
              /\ result = ResultOf(GARAGE_STATE_UNKNOWN, TRUE, TRUE, FALSE, FALSE)

\* A tick has expired the timer of a closing door.
C7_Witness ==
    /\ Called("update_timer")
    /\ Before.timer_active
    /\ Before.current_state = GARAGE_STATE_CLOSING
    /\ TickSum >= Before.timeout_ms
    /\ sm.current_state = GARAGE_STATE_UNKNOWN

\* C8: garage_sm_update_timer with an inactive timer changes no field of the
\* machine; with an active timer and a sum below timeout_ms it changes only
\* timer_elapsed_ms, to the sum; in both cases it returns new_state = the
\* current state, state_changed = false and no action flag.  (The second case
\* is stated for sums that are ints.)
C8_TickFrame ==
    Called("update_timer") =>
        /\ ~Before.timer_active =>
              /\ sm = Before
              /\ result = ResultOf(Before.current_state, FALSE, FALSE, FALSE, FALSE)
        /\ ( /\ Before.timer_active
             /\ ~Overflows(TickSum)
             /\ TickSum < Before.timeout_ms ) =>
              /\ sm = [ Before EXCEPT !.timer_elapsed_ms = TickSum ]
              /\ result = ResultOf(Before.current_state, FALSE, FALSE, FALSE, FALSE)

\* A tick with a positive delta has been applied with the timer inactive.
C8_Witness ==
    /\ Called("update_timer")
    /\ ~Before.timer_active
    /\ call.delta > 0
    /\ Before.current_state \in { GARAGE_STATE_OPENING, GARAGE_STATE_CLOSING }

\* A tick has advanced a running timer without expiring it.
C8_WitnessActive ==
    /\ Called("update_timer")
    /\ Before.timer_active
    /\ call.delta > 0
    /\ sm.timer_active
    /\ sm.timer_elapsed_ms = Before.timer_elapsed_ms + call.delta
    /\ Before.timer_elapsed_ms > 0

\* C9: timer_active = true implies that current_state is Opening or Closing.
C9_TimerOnlyInMotion ==
    sm.timer_active =>
        sm.current_state \in { GARAGE_STATE_OPENING, GARAGE_STATE_CLOSING }

\* C10: garage_sm_process_event and garage_sm_update_timer on NULL return
\* new_state = Unknown, state_changed = false and no action flag, and
\* garage_sm_get_state on NULL returns Unknown; none of them changes the
\* caller's machine.
C10_NullMachineIsInert ==
    /\ (CalledNull("process_event") \/ CalledNull("update_timer")) =>
          /\ result = ResultOf(GARAGE_STATE_UNKNOWN, FALSE, FALSE, FALSE, FALSE)
          /\ sm = Before
    /\ CalledNull("get_state") =>
          /\ got = GARAGE_STATE_UNKNOWN
          /\ sm = Before

\* A command has been handed to a NULL machine while the caller's own
\* machine stood in another state than Unknown.
C10_Witness ==
    /\ CalledNull("process_event")
    /\ call.event = GARAGE_EVENT_COMMAND_OPEN
    /\ sm.current_state = GARAGE_STATE_CLOSED

(* ------------------------------------------------------------------ *)
(* Vocabulary of the properties of the retry policies                  *)
(* ------------------------------------------------------------------ *)

\* The last WiFi policy call was fn, made on the caller's state / on NULL.
WCalled(fn) == wifi_call.fn = fn /\ ~wifi_call.null

WCalledNull(fn) == wifi_call.fn = fn /\ wifi_call.null

\* The WiFi state as it was when the last call was made.
WBefore == wifi_call.pre

\* The last MQTT policy call was fn, made on the caller's state / on NULL.
MCalled(fn) == mqtt_call.fn = fn /\ ~mqtt_call.null

MCalledNull(fn) == mqtt_call.fn = fn /\ mqtt_call.null

\* The MQTT state as it was when the last call was made.
MBefore == mqtt_call.pre

\* The wire strings of the published status payload.
WireString(state) ==
    CASE state = GARAGE_STATE_CLOSED  -> "closed"
      [] state = GARAGE_STATE_OPEN    -> "open"
      [] state = GARAGE_STATE_CLOSING -> "closing"
      [] state = GARAGE_STATE_OPENING -> "opening"
      [] state = GARAGE_STATE_UNKNOWN -> "unknown"

(* ------------------------------------------------------------------ *)
(* Properties of the string conversion and the retry policies          *)
(* ------------------------------------------------------------------ *)

\* C11: garage_state_to_string returns the lowercase wire string of the
\* state: "closed", "open", "closing", "opening", "unknown".
C11_LowercaseWireStrings ==
    call.fn = "state_to_string" => str.string = WireString(str.state)

\* C12: wifi_retry_on_disconnect on a state clears is_connected and sets
\* should_callback_disconnected; with retry_count < max_retries it adds one
\* to retry_count and returns Connect, otherwise it returns Fail, sets
\* timer_should_be_running and keeps retry_count; callback_retry_count is
\* the retry_count after the call.
C12_DisconnectBranches ==
    WCalled("on_disconnect") =>
        /\ ~wifi_state.is_connected
        /\ wifi_result.should_callback_disconnected
        /\ wifi_result.callback_retry_count = wifi_state.retry_count
        /\ IF WBefore.retry_count < WBefore.max_retries
           THEN /\ wifi_state.retry_count = WBefore.retry_count + 1
                /\ wifi_result.action = WIFI_RETRY_ACTION_CONNECT
           ELSE /\ wifi_state.retry_count = WBefore.retry_count
                /\ wifi_result.action = WIFI_RETRY_ACTION_FAIL
                /\ wifi_state.timer_should_be_running

\* A disconnect has been answered with a retry while the policy was
\* connected and had already counted a retry.
C12_Witness ==
    /\ WCalled("on_disconnect")
    /\ WBefore.retry_count > 0
    /\ WBefore.retry_count < WBefore.max_retries
    /\ wifi_result.action = WIFI_RETRY_ACTION_CONNECT

\* C13: after wifi_retry_init with max_retries >= 0, the n-th of the
\* on_disconnect calls that follow each other returns Connect with
\* callback_retry_count n for n <= max_retries, and the (max_retries+1)-th
\* returns Fail with timer_should_be_running set and retry_count still
\* max_retries.
C13_BudgetThenFail ==
    ( /\ WCalled("on_disconnect")
      /\ wifi_streak.only
      /\ wifi_state.max_retries >= 0 ) =>
        /\ wifi_streak.n <= wifi_state.max_retries =>
              /\ wifi_result.action = WIFI_RETRY_ACTION_CONNECT
              /\ wifi_result.callback_retry_count = wifi_streak.n
        /\ wifi_streak.n = wifi_state.max_retries + 1 =>
              /\ wifi_result.action = WIFI_RETRY_ACTION_FAIL
              /\ wifi_state.timer_should_be_running
              /\ wifi_state.retry_count = wifi_state.max_retries

\* The fourth disconnect in a row after an init with max_retries = 3 has
\* been answered.
C13_Witness ==
    /\ WCalled("on_disconnect")
    /\ wifi_streak.only
    /\ wifi_state.max_retries = 3
    /\ wifi_streak.n = 4
    /\ wifi_result.action = WIFI_RETRY_ACTION_FAIL

\* C14: wifi_retry_on_connected on a state sets is_connected, zeroes
\* retry_count and returns should_callback_connected; it returns StopTimer
\* and clears timer_should_be_running when the flag was set before the call,
\* and returns None otherwise.
C14_ConnectedResets ==
    WCalled("on_connected") =>
        /\ wifi_state.is_connected
        /\ wifi_state.retry_count = 0
        /\ wifi_result.should_callback_connected
        /\ ~wifi_state.timer_should_be_running
        /\ wifi_result.action = IF WBefore.timer_should_be_running
                                THEN WIFI_RETRY_ACTION_STOP_TIMER
                                ELSE WIFI_RETRY_ACTION_NONE

\* The policy has connected after a Fail: the flag was set and retries had
\* been counted.
C14_Witness ==
    /\ WCalled("on_connected")
    /\ WBefore.timer_should_be_running
    /\ WBefore.retry_count > 0
    /\ wifi_result.action = WIFI_RETRY_ACTION_STOP_TIMER

\* C15: wifi_retry_on_timer_expired on a state zeroes retry_count, returns
\* Connect and changes no other field of the state.
C15_TimerExpiredResetsCount ==
    WCalled("on_timer_expired") =>
        /\ wifi_result.action = WIFI_RETRY_ACTION_CONNECT
        /\ wifi_state = [ WBefore EXCEPT !.retry_count = 0 ]

\* The long-interval timer has expired with the flag set and retries counted.
C15_Witness ==
    /\ WCalled("on_timer_expired")
    /\ WBefore.timer_should_be_running
    /\ WBefore.retry_count > 0
    /\ wifi_state.timer_should_be_running

\* C16: mqtt_retry_on_disconnect on a state clears is_connected, adds one to
\* disconnect_count, returns should_callback_disconnected and not
\* should_callback_connected, and returns Reconnect exactly when
\* should_reconnect is set.
C16_MqttDisconnect ==
    MCalled("on_disconnect") =>
        /\ ~mqtt_state.is_connected
        /\ mqtt_state.disconnect_count = MBefore.disconnect_count + 1
        /\ mqtt_state.should_reconnect = MBefore.should_reconnect
        /\ mqtt_result.should_callback_disconnected
        /\ ~mqtt_result.should_callback_connected
        /\ mqtt_result.action = IF MBefore.should_reconnect
                                THEN MQTT_RETRY_ACTION_RECONNECT
                                ELSE MQTT_RETRY_ACTION_NONE

\* A connected policy without auto-reconnect has been disconnected.
C16_Witness ==
    /\ MCalled("on_disconnect")
    /\ MBefore.is_connected
    /\ ~MBefore.should_reconnect
    /\ mqtt_result.action = MQTT_RETRY_ACTION_NONE

\* C17: disconnect_count equals the number of mqtt_retry_on_disconnect calls
\* made since mqtt_retry_init, whatever on_connected calls came between.
C17_CountsDisconnects ==
    mqtt_state.disconnect_count = mqtt_ndisc

\* A connect has followed two disconnects.
C17_Witness ==
    /\ MCalled("on_connected")
    /\ mqtt_ndisc >= 2
    /\ mqtt_state.disconnect_count >= 2

\* C18: mqtt_retry_on_connected on a state sets is_connected, returns None
\* with should_callback_connected and not should_callback_disconnected, and
\* keeps disconnect_count and should_reconnect.
C18_MqttConnected ==
    MCalled("on_connected") =>
        /\ mqtt_state = [ MBefore EXCEPT !.is_connected = TRUE ]
        /\ mqtt_result.action = MQTT_RETRY_ACTION_NONE
        /\ mqtt_result.should_callback_connected
        /\ ~mqtt_result.should_callback_disconnected

\* An auto-reconnect policy has connected after a disconnect.
C18_Witness ==
    /\ MCalled("on_connected")
    /\ MBefore.should_reconnect
    /\ MBefore.disconnect_count > 0
    /\ ~MBefore.is_connected

\* C19: every entry point of the two retry managers, called on NULL, returns
\* action None with every callback flag false (and callback_retry_count 0),
\* the init functions and all other calls on NULL change nothing, and the
\* getters return 0 or false.
C19_NullStateIsInert ==
    /\ wifi_call.null =>
          /\ wifi_state = WBefore
          /\ wifi_call.fn \in { "on_disconnect", "on_connected", "on_timer_expired" } =>
                wifi_result = [ action                       |-> WIFI_RETRY_ACTION_NONE,
                                should_callback_connected    |-> FALSE,
                                should_callback_disconnected |-> FALSE,
                                should_callback_failed       |-> FALSE,
                                callback_retry_count         |-> 0 ]
          /\ wifi_call.fn = "get_count" => wifi_got = 0
          /\ wifi_call.fn \in { "is_connected", "should_timer_run" } =>
                wifi_got = FALSE
    /\ mqtt_call.null =>
          /\ mqtt_state = MBefore
          /\ mqtt_call.fn \in { "on_disconnect", "on_connected" } =>
                mqtt_result = [ action                       |-> MQTT_RETRY_ACTION_NONE,
                                should_callback_connected    |-> FALSE,
                                should_callback_disconnected |-> FALSE ]
          /\ mqtt_call.fn = "get_disconnect_count" => mqtt_got = 0
          /\ mqtt_call.fn = "is_connected" => mqtt_got = FALSE

\* The count has been asked of NULL while the caller's own state had counted
\* retries, after a disconnect handed to a NULL MQTT state.
C19_Witness ==
    /\ WCalledNull("get_count")
    /\ wifi_state.retry_count > 0
    /\ MCalledNull("on_disconnect")
    /\ mqtt_state.disconnect_count > 0

\* C20: the calls that mutate s_retry_state (wifi_retry_on_disconnect and
\* wifi_retry_on_connected in the event handler, wifi_retry_on_timer_expired
\* in the retry-timer callback) never interleave: while one is in progress
\* in one task, none is in progress in another.
C20_PolicyCallsNeverInterleave ==
    ~(EvInCall /\ TmInCall)

(* ------------------------------------------------------------------ *)
(* Properties of the door machine as a whole                           *)
(* ------------------------------------------------------------------ *)

\* The door states in which the door moves.
InMotion(state) == state \in { GARAGE_STATE_OPENING, GARAGE_STATE_CLOSING }

\* Machines in the given state with other timer fields.
TimerVariants(state) ==
    { [ current_state    |-> state,
        timeout_ms       |-> t,
        timer_elapsed_ms |-> e,
        timer_active     |-> a ] :
          t \in { 1, 3, DEFAULT_TIMEOUT_MS }, e \in { 0, 1, 14999 }, a \in BOOLEAN }

\* C21: the result of garage_sm_process_event and the state it leaves are
\* decided by (current_state, event): any machine in the same state with
\* other timer_active, timer_elapsed_ms or timeout_ms, given the same event,
\* returns the same result and ends in the same state.
C21_ResultIgnoresTimerFields ==
    Called("process_event") =>
        \A m \in TimerVariants(Before.current_state) :
            LET out == garage_sm_process_event(PtrTo(m), call.event)
            IN  /\ out.result = result
                /\ Deref(out.sm).current_state = sm.current_state

\* An event has changed the state of a machine whose timer was running with
\* time elapsed.
C21_Witness ==
    /\ Called("process_event")
    /\ Before.timer_active
    /\ Before.timer_elapsed_ms > 0
    /\ result.state_changed

\* C22: garage_sm_init leaves current_state = the given state, timeout_ms =
\* 15000, timer_active = false, timer_elapsed_ms = 0; garage_sm_init_with_config
\* does the same with config.timeout_ms for a config that is not NULL and has
\* timeout_ms > 0, and with 15000 otherwise.
C22_InitFields ==
    /\ Called("init_machine") =>
          sm = [ current_state    |-> call.initial_state,
                 timeout_ms       |-> 15000,
                 timer_elapsed_ms |-> 0,
                 timer_active     |-> FALSE ]
    /\ Called("init_with_config") =>
          sm = [ current_state    |-> call.initial_state,
                 timeout_ms       |-> IF call.config = NULL THEN 15000
                                      ELSE IF Deref(call.config).timeout_ms > 0
                                           THEN Deref(call.config).timeout_ms
                                           ELSE 15000,
                 timer_elapsed_ms |-> 0,
                 timer_active     |-> FALSE ]

\* A machine whose timer was running has been initialised again with a
\* config whose timeout is not positive.
C22_Witness ==
    /\ Called("init_with_config")
    /\ call.config # NULL
    /\ Deref(call.config).timeout_ms <= 0
    /\ Before.timer_active
    /\ sm.timeout_ms = 15000

\* C23: garage_sm_process_event(SensorClosed) leaves the machine, from any
\* state, in Closed with the timer inactive at 0 and requests no button
\* press; after garage_sm_process_event(SensorOpen) the state is not Closed.
C23_SensorsAreAuthoritative ==
    /\ (Called("process_event") /\ call.event = GARAGE_EVENT_SENSOR_CLOSED) =>
          /\ sm.current_state = GARAGE_STATE_CLOSED
          /\ ~sm.timer_active
          /\ sm.timer_elapsed_ms = 0
          /\ ~result.actions.trigger_button_press
    /\ (Called("process_event") /\ call.event = GARAGE_EVENT_SENSOR_OPEN) =>
          sm.current_state # GARAGE_STATE_CLOSED

\* The closed sensor has fired on a closing door whose timer had advanced.
C23_Witness ==
    /\ Called("process_event")
    /\ call.event = GARAGE_EVENT_SENSOR_CLOSED
    /\ Before.current_state = GARAGE_STATE_CLOSING
    /\ Before.timer_active
    /\ Before.timer_elapsed_ms > 0

\* C25: a machine initialised in Closed, Open or Unknown is never in Opening
\* or Closing with the timer inactive; a machine initialised in Opening or
\* Closing starts with the timer inactive.
C25_MotionHasGuard ==
    /\ (~InMotion(born) /\ InMotion(sm.current_state)) => sm.timer_active
    /\ (call.fn = "init" /\ InMotion(born)) => ~sm.timer_active

\* A machine initialised in Unknown is closing with its timer advanced.
C25_Witness ==
    /\ born = GARAGE_STATE_UNKNOWN
    /\ sm.current_state = GARAGE_STATE_CLOSING
    /\ sm.timer_active
    /\ sm.timer_elapsed_ms > 0

\* C26: a result of garage_sm_process_event or garage_sm_update_timer with
\* trigger_button_press = true comes from a CommandOpen or CommandClose
\* event, made in a state other than Opening and Closing, and has
\* state_changed = true and start_timeout_timer = true.
C26_OnlyCommandsPress ==
    ( /\ call.fn \in { "process_event", "update_timer" }
      /\ result.actions.trigger_button_press ) =>
        /\ call.fn = "process_event"
        /\ ~call.null
        /\ call.event \in { GARAGE_EVENT_COMMAND_OPEN, GARAGE_EVENT_COMMAND_CLOSE }
        /\ ~InMotion(Before.current_state)
        /\ result.state_changed
        /\ result.actions.start_timeout_timer

\* A close command has pressed the button of an open door.
C26_Witness ==
    /\ Called("process_event")
    /\ call.event = GARAGE_EVENT_COMMAND_CLOSE
    /\ Before.current_state = GARAGE_STATE_OPEN
    /\ result.actions.trigger_button_press

\* C27: when garage_sm_process_event is called twice in a row with the same
\* event, the second call returns state_changed = false and no action flag
\* and leaves current_state as the first call left it.
C27_SecondCallIsNoOp ==
    (Called("process_event") /\ call.repeat) =>
        /\ result = ResultOf(Before.current_state, FALSE, FALSE, FALSE, FALSE)
        /\ sm.current_state = Before.current_state

\* An open command has been repeated on a door the first one set in motion.
C27_Witness ==
    /\ Called("process_event")
    /\ call.repeat
    /\ call.event = GARAGE_EVENT_COMMAND_OPEN
    /\ Before.current_state = GARAGE_STATE_OPENING
    /\ Before.timer_active
    /\ Before.timer_elapsed_ms = 0

\* C29: an event outside the transition table for the current state leaves
\* current_state, timeout_ms, timer_active and timer_elapsed_ms as they were,
\* and no event or tick changes timeout_ms.
C29_UnlistedEventsChangeNoField ==
    /\ (Called("process_event") /\ ~InTable(Before.current_state, call.event)) =>
          sm = Before
    /\ call.fn \in { "process_event", "update_timer" } =>
          sm.timeout_ms = Before.timeout_ms

\* An open command has been ignored by a closing door whose timer had
\* advanced.
C29_Witness ==
    /\ Called("process_event")
    /\ call.event = GARAGE_EVENT_COMMAND_OPEN
    /\ Before.current_state = GARAGE_STATE_CLOSING
    /\ Before.timer_active
    /\ Before.timer_elapsed_ms > 0
    /\ sm.timer_elapsed_ms = Before.timer_elapsed_ms

\* C30: with max_retries >= 0, 0 <= retry_count <= max_retries in every state
\* reached from wifi_retry_init by on_disconnect, on_connected and
\* on_timer_expired calls.
C30_RetryCountWithinBudget ==
    wifi_state.max_retries >= 0 =>
        /\ 0 <= wifi_state.retry_count
        /\ wifi_state.retry_count <= wifi_state.max_retries

\* A further disconnect has arrived after the budget was used up.
C30_Witness ==
    /\ WCalled("on_disconnect")
    /\ WBefore.max_retries >= 1
    /\ WBefore.retry_count = WBefore.max_retries
    /\ WBefore.timer_should_be_running
    /\ wifi_state.retry_count = wifi_state.max_retries

\* C24: a door in Opening or Closing with the timer active, given ticks with
\* positive deltas and no other event, eventually leaves the state in motion
\* with the timer inactive: Open from Opening, Unknown from Closing.
C24_TimeoutResolvesMotion ==
    /\ (sm.current_state = GARAGE_STATE_OPENING /\ sm.timer_active)
          ~> (sm.current_state = GARAGE_STATE_OPEN /\ ~sm.timer_active)
    /\ (sm.current_state = GARAGE_STATE_CLOSING /\ sm.timer_active)
          ~> (sm.current_state = GARAGE_STATE_UNKNOWN /\ ~sm.timer_active)

\* C28: after every garage_sm_process_event call and every
\* garage_sm_update_timer call with a non-negative delta,
\* 0 <= timer_elapsed_ms < timeout_ms.
C28_ElapsedBelowTimeout ==
    /\ 0 <= sm.timer_elapsed_ms
    /\ sm.timer_elapsed_ms < sm.timeout_ms


(* ------------------------------------------------------------------ *)
(* The MQTT integration: mqtt_impl.c and its event handler             *)
(* ------------------------------------------------------------------ *)

InitMqttImpl ==
    /\ ClientIdle
    /\ MqttIdle
    /\ DoorIdle
    /\ WifiIdle
    /\ TasksIdle
    /\ LegacyIdle
    /\ calls = 0

\* mqtt_init(config, callbacks) (lines 120-153); client is what
\* mqtt_hal_client_init returns.
MqttImplInit ==
    \E config \in { NULL, PtrTo("config") }, callbacks \in MqttCallbackArgs,
       client \in { "NULL", "client" } :
        /\ calls < MaxCalls
        /\ IF config = NULL
           THEN /\ mqtt_log' = [ op |-> "mqtt_init", did |-> << >> ]
                /\ UNCHANGED << s_mqtt_handle, s_mqtt_callbacks, mqtt_registered,
                                mqtt_state >>
           ELSE /\ s_mqtt_callbacks' = IF callbacks # NULL THEN Deref(callbacks)
                                                           ELSE s_mqtt_callbacks
                /\ mqtt_state' = Deref(mqtt_retry_init(PtrTo(mqtt_state), TRUE))
                /\ s_mqtt_handle' = client
                /\ mqtt_registered' = (mqtt_registered \/ client # "NULL")
                /\ mqtt_log' = [ op |-> "mqtt_init",
                                 did |-> << "mqtt_retry_init", "mqtt_hal_client_init" >>
                                         \o ( IF client # "NULL"
                                              THEN << "mqtt_hal_client_register_event" >>
                                              ELSE << >> ) ]
        /\ calls' = calls + 1
        /\ UNCHANGED << mqtt_result, mqtt_call, mqtt_got, mqtt_ndisc,
                        doorVars, wifiVars, taskVars, legacyVars >>

\* mqtt_start() (lines 15-22)
MqttImplStart ==
    /\ calls < MaxCalls
    /\ mqtt_log' = [ op |-> "mqtt_start",
                     did |-> IF s_mqtt_handle # "NULL"
                             THEN << "mqtt_hal_client_start" >> ELSE << >> ]
    /\ calls' = calls + 1
    /\ UNCHANGED << s_mqtt_handle, s_mqtt_callbacks, mqtt_registered,
                    doorVars, wifiVars, mqttVars, taskVars, legacyVars >>

\* The client the handler is registered with dispatches an event to
\* mqtt_event_handler, which hands it to mqtt_event_handler_cb
\* (lines 112-115 and 47-105).
MqttImplEvent ==
    \E event_id \in mqtt_event_ids :
        LET out == mqtt_event_handler_cb(mqtt_state, s_mqtt_callbacks, event_id)
        IN  /\ calls < MaxCalls
            /\ mqtt_registered
            /\ mqtt_state' = out.state
            /\ mqtt_result' = out.result
            /\ mqtt_log' = [ op |-> event_id, did |-> out.did ]
            /\ calls' = calls + 1
            /\ UNCHANGED << s_mqtt_handle, s_mqtt_callbacks, mqtt_registered,
                            mqtt_call, mqtt_got, mqtt_ndisc,
                            doorVars, wifiVars, taskVars, legacyVars >>

NextMqttImpl == MqttImplInit \/ MqttImplStart \/ MqttImplEvent

SpecMqttImpl == InitMqttImpl /\ [][NextMqttImpl]_vars

(* ------------------------------------------------------------------ *)
(* The door machine beside the queue-driven handler it was taken from  *)
(* ------------------------------------------------------------------ *)

\* Both start in the same door state.
InitLegacyDoor ==
    /\ garageDoorState \in GarageDoorState
    /\ legacy_door = [ input |-> "none", level |-> 0, button |-> FALSE, timer |-> FALSE ]
    /\ maximum_wifi_retries = ESP_MAXIMUM_WIFI_RETRY
    /\ s_retry_num = 0
    /\ legacy_wifi = [ event |-> "none", did |-> legacy_wifi_nothing ]
    /\ sm \in InitialMachines
    /\ sm.current_state = StateOfDoor(garageDoorState)
    /\ result = no_change(PtrTo(sm))
    /\ call = NoCall
    /\ got = sm.current_state
    /\ run = NoRun
    /\ str = [ state |-> sm.current_state,
               string |-> garage_state_to_string(sm.current_state) ]
    /\ born = sm.current_state
    /\ calls = 0
    /\ WifiIdle
    /\ MqttIdle
    /\ TasksIdle
    /\ ClientIdle

\* One input of the queue: state_machine_handler takes it, and
\* garage_sm_process_event is given the event that stands for it.
QueueInput ==
    \E input \in QueueInputs, reedSwitchLevel \in ReedSwitchLevels :
        LET old == state_machine_handler(garageDoorState, input, reedSwitchLevel)
            event == EventOfInput(input, reedSwitchLevel)
            out == garage_sm_process_event(PtrTo(sm), event)
        IN  /\ calls < MaxCalls
            /\ garageDoorState' = old.garageDoorState
            /\ legacy_door' = [ input |-> input, level |-> reedSwitchLevel,
                                button |-> old.button, timer |-> old.timer ]
            /\ sm' = Deref(out.sm)
            /\ result' = out.result
            /\ call' = [ fn |-> "process_event", null |-> FALSE,
                         event |-> event, delta |-> 0, pre |-> sm,
                         repeat |-> /\ call.fn = "process_event"
                                    /\ ~call.null
                                    /\ call.event = event ]
            /\ run' = NoRun
            /\ calls' = calls + 1
            /\ UNCHANGED << got, str, born, maximum_wifi_retries, s_retry_num,
                            legacy_wifi, wifiVars, mqttVars, taskVars, clientVars >>

SpecLegacyDoor == InitLegacyDoor /\ [][QueueInput]_vars

(* ------------------------------------------------------------------ *)
(* The WiFi retry policy beside the inline logic it was taken from     *)
(* ------------------------------------------------------------------ *)

\* wifi_init_sta(max_retries, retry_interval_ms) of both files: the budget
\* is stored (wifi_impl.c as it was, lines 177-178) and the policy is
\* initialised (wifi/wifi_impl.c, line 181).
InitLegacyWifi ==
    /\ wifi_state \in InitialWifiStates
    /\ maximum_wifi_retries = wifi_state.max_retries
    /\ s_retry_num = 0
    /\ legacy_wifi = [ event |-> "none", did |-> legacy_wifi_nothing ]
    /\ garageDoorState = Unknown
    /\ legacy_door = [ input |-> "none", level |-> 0, button |-> FALSE, timer |-> FALSE ]
    /\ wifi_result = wifi_zero_result
    /\ wifi_call = [ fn |-> "init", null |-> FALSE, pre |-> wifi_state ]
    /\ wifi_got = 0
    /\ wifi_streak = NoStreak
    /\ calls = 0
    /\ DoorIdle
    /\ MqttIdle
    /\ TasksIdle
    /\ ClientIdle

\* The driver posts STA_DISCONNECTED or GOT_IP: the inline handler takes it,
\* and the handler of wifi/wifi_impl.c calls wifi_retry_on_disconnect or
\* wifi_retry_on_connected (lines 141-162).
LegacyWifiEvent ==
    \E event_id \in { WIFI_EVENT_STA_DISCONNECTED, IP_EVENT_STA_GOT_IP } :
        LET old == legacy_wifi_event_handler(s_retry_num, maximum_wifi_retries, event_id)
            out == IF event_id = WIFI_EVENT_STA_DISCONNECTED
                   THEN wifi_retry_on_disconnect(PtrTo(wifi_state))
                   ELSE wifi_retry_on_connected(PtrTo(wifi_state))
        IN  /\ calls < MaxCalls
            /\ s_retry_num' = old.s_retry_num
            /\ legacy_wifi' = [ event |-> event_id, did |-> old.did ]
            /\ wifi_state' = Deref(out.state)
            /\ wifi_result' = out.result
            /\ wifi_call' = [ fn |-> IF event_id = WIFI_EVENT_STA_DISCONNECTED
                                     THEN "on_disconnect" ELSE "on_connected",
                              null |-> FALSE, pre |-> wifi_state,
                              failed |-> wifi_streak.failed,
                              stop |-> wifi_streak.stop ]
            /\ calls' = calls + 1
            /\ UNCHANGED << wifi_got, wifi_streak, garageDoorState, legacy_door,
                            maximum_wifi_retries, doorVars, mqttVars, taskVars,
                            clientVars >>

\* The long-interval timer expires: wifi_retry_timer_callback of both files.
LegacyWifiTimer ==
    LET old == legacy_wifi_retry_timer_callback(s_retry_num)
        out == wifi_retry_on_timer_expired(PtrTo(wifi_state))
    IN  /\ calls < MaxCalls
        /\ s_retry_num' = old.s_retry_num
        /\ legacy_wifi' = [ event |-> "retry_timer", did |-> old.did ]
        /\ wifi_state' = Deref(out.state)
        /\ wifi_result' = out.result
        /\ wifi_call' = [ fn |-> "on_timer_expired", null |-> FALSE,
                          pre |-> wifi_state ]
        /\ calls' = calls + 1
        /\ UNCHANGED << wifi_got, wifi_streak, garageDoorState, legacy_door,
                        maximum_wifi_retries, doorVars, mqttVars, taskVars,
                        clientVars >>

NextLegacyWifi == LegacyWifiEvent \/ LegacyWifiTimer

SpecLegacyWifi == InitLegacyWifi /\ [][NextLegacyWifi]_vars

(* ------------------------------------------------------------------ *)
(* Attempt cycles of the WiFi retry policy                             *)
(* ------------------------------------------------------------------ *)

\* C31: after wifi_retry_on_timer_expired, wifi_retry_on_connected or
\* wifi_retry_init, the k-th of the on_disconnect calls that follow without
\* another such call returns Connect with callback_retry_count k for
\* k <= max_retries, and Fail for every k > max_retries.
C31_OneFreshCycle ==
    ( /\ WCalled("on_disconnect")
      /\ wifi_state.max_retries >= 0 ) =>
        /\ wifi_streak.since <= wifi_state.max_retries =>
              /\ wifi_result.action = WIFI_RETRY_ACTION_CONNECT
              /\ wifi_result.callback_retry_count = wifi_streak.since
        /\ wifi_streak.since > wifi_state.max_retries =>
              wifi_result.action = WIFI_RETRY_ACTION_FAIL

\* A timer expiry after a Fail has been followed by max_retries = 1
\* Connect and then a Fail again.
C31_Witness ==
    /\ WCalled("on_disconnect")
    /\ wifi_streak.cycle = "on_timer_expired"
    /\ wifi_streak.n > wifi_streak.since
    /\ wifi_state.max_retries = 1
    /\ wifi_streak.since = 2
    /\ WBefore.retry_count = 1
    /\ WBefore.timer_should_be_running
    /\ wifi_result.action = WIFI_RETRY_ACTION_FAIL

\* C32: wifi_retry_on_connected returns StopTimer exactly when an
\* on_disconnect call returned Fail since the last on_connected call (or
\* since init), and None otherwise; of two on_connected calls in a row at
\* most one returns StopTimer.
C32_StopTimerIffFailedSince ==
    /\ WCalled("on_connected") =>
          /\ wifi_call.failed => wifi_result.action = WIFI_RETRY_ACTION_STOP_TIMER
          /\ ~wifi_call.failed => wifi_result.action = WIFI_RETRY_ACTION_NONE
    /\ ~wifi_streak.twice

\* An on_connected call that returned StopTimer has been followed by one
\* that returned None.
C32_Witness ==
    /\ WCalled("on_connected")
    /\ wifi_call.stop
    /\ wifi_result.action = WIFI_RETRY_ACTION_NONE

\* C33: once an on_disconnect call has returned Fail, timer_should_be_running
\* is true until the next on_connected call or init: on_disconnect and
\* on_timer_expired calls keep a set flag, and a flag that goes from true to
\* false does so in an on_connected or init call.
C33_FlagHeldUntilConnected ==
    /\ wifi_streak.failed => wifi_state.timer_should_be_running
    /\ ( /\ wifi_call.fn \in { "on_disconnect", "on_timer_expired" }
         /\ WBefore.timer_should_be_running ) =>
          wifi_state.timer_should_be_running
    /\ ( WBefore.timer_should_be_running /\ ~wifi_state.timer_should_be_running ) =>
          WCalled("on_connected") \/ WCalled("init")

\* After a Fail and a timer expiry, a disconnect has been answered with
\* Connect and the flag is still set.
C33_Witness ==
    /\ WCalled("on_disconnect")
    /\ wifi_streak.failed
    /\ wifi_streak.cycle = "on_timer_expired"
    /\ wifi_result.action = WIFI_RETRY_ACTION_CONNECT
    /\ wifi_state.timer_should_be_running

\* C34: in every state reached from wifi_retry_init by policy calls,
\* is_connected = true implies retry_count = 0 and
\* timer_should_be_running = false.
C34_ConnectedMeansQuiet ==
    wifi_state.is_connected =>
        /\ wifi_state.retry_count = 0
        /\ ~wifi_state.timer_should_be_running

\* A connection has been reported on a state that had counted retries and
\* had the long-interval timer marked running.
C34_Witness ==
    /\ WCalled("on_connected")
    /\ WBefore.retry_count > 0
    /\ WBefore.timer_should_be_running
    /\ wifi_state.is_connected

\* C35: no WiFi policy call returns should_callback_failed = true, a Fail
\* included; no result has both should_callback_connected and
\* should_callback_disconnected; on_timer_expired sets neither.
C35_NoFailedCallback ==
    /\ ~wifi_result.should_callback_failed
    /\ ~ ( /\ wifi_result.should_callback_connected
           /\ wifi_result.should_callback_disconnected )
    /\ WCalled("on_timer_expired") =>
          /\ ~wifi_result.should_callback_connected
          /\ ~wifi_result.should_callback_disconnected

\* A disconnect has been answered with Fail.
C35_Witness ==
    /\ WCalled("on_disconnect")
    /\ wifi_result.action = WIFI_RETRY_ACTION_FAIL
    /\ wifi_result.should_callback_disconnected

(* ------------------------------------------------------------------ *)
(* The event group of the WiFi integration                             *)
(* ------------------------------------------------------------------ *)

\* C37: every wifi_hal_event_group_set_bits call of wifi_event_handler
\* (WIFI_FAIL_BIT after a Fail, WIFI_CONNECTED_BIT after GOT_IP) is made
\* while s_wifi_event_group names an event group that exists: created by
\* wifi_wait_connected and not yet deleted by it.
C37_SetBitsOnLiveGroup ==
    [][ (EvDisconnectGiveUp \/ EvConnectedAct) => s_wifi_event_group.alive ]_vars

(* ------------------------------------------------------------------ *)
(* The integrations and the code they were taken from                  *)
(* ------------------------------------------------------------------ *)

\* C36: mqtt_event_handler_cb handles MQTT_EVENT_DISCONNECTED by applying
\* mqtt_retry_on_disconnect, then calling the on_disconnected callback if
\* one is registered, then calling mqtt_hal_client_start once; it handles
\* MQTT_EVENT_CONNECTED by applying mqtt_retry_on_connected and calling
\* the on_connected callback if one is registered, with no client start.
C36_DisconnectOrder ==
    /\ mqtt_log.op = MQTT_EVENT_DISCONNECTED =>
          mqtt_log.did = << "mqtt_retry_on_disconnect" >>
                         \o ( IF s_mqtt_callbacks.on_disconnected
                              THEN << "on_disconnected" >> ELSE << >> )
                         \o << "mqtt_hal_client_start" >>
    /\ mqtt_log.op = MQTT_EVENT_CONNECTED =>
          mqtt_log.did = << "mqtt_retry_on_connected" >>
                         \o ( IF s_mqtt_callbacks.on_connected
                              THEN << "on_connected" >> ELSE << >> )
    /\ mqtt_registered => mqtt_state.should_reconnect

\* A second disconnect has been handled with the callback registered.
C36_Witness ==
    /\ mqtt_log.op = MQTT_EVENT_DISCONNECTED
    /\ s_mqtt_callbacks.on_disconnected
    /\ mqtt_state.disconnect_count = 2
    /\ Len(mqtt_log.did) = 3

\* C38: for every door state and every input of the queue, the state
\* state_machine_handler leaves, whether it started the button press task
\* and whether it armed the timeout timer equal new_state,
\* trigger_button_press and start_timeout_timer of garage_sm_process_event
\* for the event that stands for the input.
C38_MachineMatchesHandler ==
    /\ StateOfDoor(garageDoorState) = sm.current_state
    /\ legacy_door.input # "none" =>
          /\ Called("process_event")
          /\ StateOfDoor(garageDoorState) = result.new_state
          /\ legacy_door.button = result.actions.trigger_button_press
          /\ legacy_door.timer = result.actions.start_timeout_timer

\* A CLOSE command has been taken in Unknown: the button is pressed and
\* the timer armed on both sides.
C38_Witness ==
    /\ legacy_door.input = COMMAND_CLOSE
    /\ call.pre.current_state = GARAGE_STATE_UNKNOWN
    /\ garageDoorState = Closing
    /\ legacy_door.button
    /\ legacy_door.timer
    /\ result.actions.trigger_button_press

\* C39: under every sequence of station-disconnected, got-IP and
\* retry-timer events, retry_count equals s_retry_num, the policy returns
\* Connect exactly when the inline code calls esp_wifi_connect and Fail
\* exactly when it sets WIFI_FAIL_BIT, and callback_retry_count is the value
\* the inline code hands to on_disconnected.
C39_PolicyMatchesInline ==
    /\ wifi_state.retry_count = s_retry_num
    /\ legacy_wifi.event # "none" =>
          /\ (wifi_result.action = WIFI_RETRY_ACTION_CONNECT) <=> legacy_wifi.did.connect
          /\ (wifi_result.action = WIFI_RETRY_ACTION_FAIL) <=> legacy_wifi.did.fail_bit
          /\ wifi_result.should_callback_disconnected <=> legacy_wifi.did.callback
          /\ legacy_wifi.did.callback =>
                wifi_result.callback_retry_count = legacy_wifi.did.callback_retry_count

\* With a budget of 1 used up and the long-interval timer marked running, a
\* further disconnect has set WIFI_FAIL_BIT and returned Fail.
C39_Witness ==
    /\ legacy_wifi.event = WIFI_EVENT_STA_DISCONNECTED
    /\ legacy_wifi.did.fail_bit
    /\ wifi_result.action = WIFI_RETRY_ACTION_FAIL
    /\ maximum_wifi_retries = 1
    /\ s_retry_num = 1
    /\ wifi_state.timer_should_be_running
    /\ wifi_call.pre.timer_should_be_running

====
